---- MODULE Spec2Model ----
(***************************************************************************)
(* Model of the project scanner (src/src/utils/project-scanner.ts), the    *)
(* key-value stores (storage.ts, src/unnamed/part_001) and the open-project*)
(* command's loadData (src/unnamed/part_006).                              *)
(*                                                                         *)
(* A file or folder name is a sequence of one-character strings, a path is *)
(* a sequence of names (join appends a name, basename is the last name).   *)
(* The filesystem is fixed while a scan runs; the outcome of readdir, stat *)
(* and access is a function of it.                                         *)
(***************************************************************************)
EXTENDS Integers, Sequences, FiniteSets, TLC

\* ------------------------------------------------------------------ bounds
MaxTreeDepth == 2      \* directory levels below the root in the generated trees
MaxDirs == 3           \* directories below the root in a generated tree
MaxUnreadable == 1     \* directories whose listing is denied
MaxDepthBound == 2     \* largest maxDepth handed to the walker
MaxTicks == 2          \* clock advances in a run of the scan specification

\* ------------------------------------------------------------------ names
NameW == <<"w">>
NameA == <<"a">>
NameB == <<"b">>
NameC == <<"c">>
NameBN == <<"b","N">>
DotGit == <<".","g","i","t">>
PackageJson == <<"p","a","c","k","a","g","e",".","j","s","o","n">>
NameL == <<"l">>
DotIdea == <<".","i","d","e","a">>
DotVscode == <<".","v","s","c","o","d","e">>

\* readdir returns names in byte order (APFS and NTFS list sorted)
EntryOrder == << DotGit, DotIdea, DotVscode, NameA, NameB, NameBN, NameC, NameL, PackageJson >>

PROJECT_INDICATORS ==
  << <<".","g","i","t">>,
     <<"p","a","c","k","a","g","e",".","j","s","o","n">>,
     <<"C","a","r","g","o",".","t","o","m","l">>,
     <<"p","o","m",".","x","m","l">>,
     <<"b","u","i","l","d",".","g","r","a","d","l","e">>,
     <<"r","e","q","u","i","r","e","m","e","n","t","s",".","t","x","t">>,
     <<"s","e","t","u","p",".","p","y">>,
     <<"p","y","p","r","o","j","e","c","t",".","t","o","m","l">>,
     <<"g","o",".","m","o","d">>,
     <<"c","o","m","p","o","s","e","r",".","j","s","o","n">>,
     <<"G","e","m","f","i","l","e">>,
     <<"m","i","x",".","e","x","s">>,
     <<"p","r","o","j","e","c","t",".","c","l","j">>,
     <<"d","e","p","s",".","e","d","n">>,
     <<"t","s","c","o","n","f","i","g",".","j","s","o","n">>,
     <<"a","n","g","u","l","a","r",".","j","s","o","n">>,
     <<"v","u","e",".","c","o","n","f","i","g",".","j","s">>,
     <<"v","i","t","e",".","c","o","n","f","i","g",".","j","s">>,
     <<"w","e","b","p","a","c","k",".","c","o","n","f","i","g",".","j","s">> >>

\* the loadData calls of a run: a first one and one that may overlap it
Tasks == {"t1", "t2"}

VARIABLES
  fs,             \* the filesystem: [dirs, files, unreadable, recent, broken, links]
  args,           \* per task: the walker's maxDepth and excludedFolders
  pc,             \* per task: position of the task
  stack,          \* per task: the pending scanDirectory activations, top first
  foundProjects,  \* per task: the accumulator
  calls,          \* per task: every scanDirectory activation so far, in order
  recencySeen,    \* per task: the paths whose mtime entered a recency result
  now,            \* Date.now(), in milliseconds
  store,          \* LocalStorage: key -> <<>> (no item) or <<value>>
  projects,       \* the command's list state (setProjects)
  local,          \* per task: the locals of loadData, scanProjects, getCachedProjects
  result,         \* per task: <<>> or <<the list scanProjects returned>>
  written,        \* the lists handed to setCachedProjects so far, in order
  cacheId,        \* index in written of the record in the cache slot, 0 when none
  removedBy,      \* the forceRefresh flags of the loadData calls that removed an item
  ticks,          \* clock advances so far
  call,           \* per task: the storage function in progress and what it read
  command,        \* the Raycast command that is running
  toasts,         \* the notifications shown since the current handler began
  effects,        \* the filesystem calls and process launches of the current handler
  cursorInstalled,  \* <<>> while checkCursor is pending, else <<its result>>
  action          \* the current handler: its arguments and what happened to it

uiVars == << toasts, effects, cursorInstalled, action >>

appVars == << call, command, uiVars >>

scanVars == << now, store, projects, local, result,
               written, cacheId, removedBy, ticks, appVars >>

vars == << fs, args, pc, stack, foundProjects, calls, recencySeen, scanVars >>

\* ------------------------------------------------------- string functions
ToLowerChar(c) ==
  CASE c = "A" -> "a" [] c = "B" -> "b" [] c = "C" -> "c" [] c = "D" -> "d"
    [] c = "E" -> "e" [] c = "F" -> "f" [] c = "G" -> "g" [] c = "H" -> "h"
    [] c = "I" -> "i" [] c = "J" -> "j" [] c = "K" -> "k" [] c = "L" -> "l"
    [] c = "M" -> "m" [] c = "N" -> "n" [] c = "O" -> "o" [] c = "P" -> "p"
    [] c = "Q" -> "q" [] c = "R" -> "r" [] c = "S" -> "s" [] c = "T" -> "t"
    [] c = "U" -> "u" [] c = "V" -> "v" [] c = "W" -> "w" [] c = "X" -> "x"
    [] c = "Y" -> "y" [] c = "Z" -> "z" [] OTHER -> c

toLowerCase(s) == [i \in 1..Len(s) |-> ToLowerChar(s[i])]

IsSpace(c) == c \in {" ", "\t", "\n"}

RECURSIVE trimStart(_)
trimStart(s) ==
  IF s # <<>> /\ IsSpace(Head(s)) THEN trimStart(Tail(s)) ELSE s

RECURSIVE trimEnd(_)
trimEnd(s) ==
  IF s # <<>> /\ IsSpace(s[Len(s)]) THEN trimEnd(SubSeq(s, 1, Len(s) - 1)) ELSE s

trim(s) == trimEnd(trimStart(s))

includes(s, sub) ==
  \E i \in 0..(Len(s) - Len(sub)) : SubSeq(s, i + 1, i + Len(sub)) = sub

join(dirPath, entry) == Append(dirPath, entry)

basename(path) == path[Len(path)]

\* ------------------------------------------------------------ filesystem
\* readdir, stat and access follow symbolic links: fs.links holds the pairs
\* <<link, directory it points to>>, and Real(p) is the path p names
\* where the path leads: the target of the link at it, or the path itself
Follow(path) ==
  CHOOSE q \in UNION { IF \E l \in fs.links : l[1] = x
                       THEN { l[2] : l \in { m \in fs.links : m[1] = x } }
                       ELSE { x } : x \in { path } } : TRUE

RECURSIVE Resolve(_, _)
Resolve(done, rest) ==
  IF rest = <<>> THEN done
  ELSE Resolve(Follow(Append(done, Head(rest))), Tail(rest))

Real(p) == IF fs.links = {} THEN p ELSE Resolve(<<>>, p)

\* readdir(p) resolves when p is a directory whose listing is permitted
ReaddirOk(p) == Real(p) \in fs.dirs /\ Real(p) \notin fs.unreadable

\* the names of a listing: the entries that exist and the broken ones (a
\* dangling link, an entry that may not be looked at)
Readdir(p) ==
  SelectSeq(EntryOrder, LAMBDA e : join(Real(p), e) \in fs.dirs \cup fs.files \cup fs.broken
                                                        \cup { l[1] : l \in fs.links })

\* stat(p) and access(p) resolve when p exists; they reject on a broken entry
StatOk(p) == Real(p) \in fs.dirs \cup fs.files

IsDirectory(p) == Real(p) \in fs.dirs

AccessOk(p) == Real(p) \in fs.dirs \cup fs.files

StatMtime(p) == IF Real(p) \in fs.recent THEN 2 ELSE 1

StatSize(p) == Cardinality({q \in fs.dirs \cup fs.files :
                             Len(q) = Len(Real(p)) + 1 /\ SubSeq(q, 1, Len(Real(p))) = Real(p)})

\* ------------------------------------------------------- project-scanner
\* shouldExcludeFolder comparing the folder name case-sensitively
shouldExcludeFolderCaseSensitive(folderName, excludedFolders) ==
  \E i \in 1..Len(excludedFolders) :
     includes(folderName, trim(toLowerCase(excludedFolders[i])))

shouldExcludeFolder(folderName, excludedFolders) ==
  \E i \in 1..Len(excludedFolders) :
     includes(toLowerCase(folderName), trim(toLowerCase(excludedFolders[i])))

\* isProjectDirectory with the IDE folders in the marker list
isProjectDirectoryWithIdeFolders(dirPath) ==
  \E marker \in { PROJECT_INDICATORS[i] : i \in 1..Len(PROJECT_INDICATORS) }
                   \cup { DotVscode, DotIdea } : AccessOk(join(dirPath, marker))

\* project-scanner.ts:70-78: one access per marker, a rejected one is false
isProjectDirectory(dirPath) ==
  \E i \in 1..Len(PROJECT_INDICATORS) : AccessOk(join(dirPath, PROJECT_INDICATORS[i]))

\* hasSubProjects without the exclusion test on the entries
hasSubProjectsAnyChild(dirPath, excludedFolders) ==
  IF ~ReaddirOk(dirPath) THEN FALSE
  ELSE LET entries == Readdir(dirPath) IN
       \E i \in 1..Len(entries) :
          /\ StatOk(join(dirPath, entries[i]))
          /\ IsDirectory(join(dirPath, entries[i]))
          /\ isProjectDirectory(join(dirPath, entries[i]))

hasSubProjects(dirPath, excludedFolders) ==
  IF ~ReaddirOk(dirPath) THEN FALSE
  ELSE LET entries == Readdir(dirPath) IN
       \E i \in 1..Len(entries) :
          /\ ~shouldExcludeFolder(entries[i], excludedFolders)
          /\ StatOk(join(dirPath, entries[i]))
          /\ IsDirectory(join(dirPath, entries[i]))
          /\ isProjectDirectory(join(dirPath, entries[i]))

\* One iteration of the loop of scanForLatestFile over the rest of a listing.
\* acc = [latestDate |-> <<>> or <<mtime>>, seen |-> paths whose mtime was compared]
RECURSIVE scanForLatestFile(_, _, _, _, _)
RECURSIVE ScanForLatestLoop(_, _, _, _, _, _)
ScanForLatestLoop(currentPath, entries, depth, excludedFolders, maxDepth, acc) ==
  IF entries = <<>> THEN acc
  ELSE
    LET entry == Head(entries)
        fullPath == join(currentPath, entry)
        next ==
          IF shouldExcludeFolder(entry, excludedFolders) THEN acc
          ELSE IF ~StatOk(fullPath) THEN acc
          ELSE
            LET upd == [latestDate |->
                           IF acc.latestDate = <<>> \/ StatMtime(fullPath) > acc.latestDate[1]
                           THEN << StatMtime(fullPath) >> ELSE acc.latestDate,
                        seen |-> acc.seen \cup {fullPath}]
            IN IF IsDirectory(fullPath) /\ depth < maxDepth
               THEN scanForLatestFile(fullPath, depth + 1, excludedFolders, maxDepth, upd)
               ELSE upd
    IN \* the accumulator is bound to its value before the next iteration
       CHOOSE r \in { ScanForLatestLoop(currentPath, Tail(entries), depth,
                                        excludedFolders, maxDepth, n) : n \in { next } } : TRUE

scanForLatestFile(currentPath, depth, excludedFolders, maxDepth, acc) ==
  IF depth > maxDepth THEN acc
  ELSE IF ~ReaddirOk(currentPath) THEN acc
  ELSE ScanForLatestLoop(currentPath, Readdir(currentPath), depth,
                         excludedFolders, maxDepth, acc)

\* the recency scan stopping one level earlier
getLatestFileModificationOneLevel(dirPath, excludedFolders, maxDepth) ==
  scanForLatestFile(dirPath, 0, excludedFolders, 1,
                    [latestDate |-> <<>>, seen |-> {}])

\* project-scanner.ts:6-44
getLatestFileModification(dirPath, excludedFolders, maxDepth) ==
  scanForLatestFile(dirPath, 0, excludedFolders, maxDepth,
                    [latestDate |-> <<>>, seen |-> {}])

\* the object pushed at project-scanner.ts:157-164
ProjectEntry(dirPath, latestModification) ==
  [ id |-> dirPath,
    name |-> basename(dirPath),
    path |-> dirPath,
    type |-> "local",
    size |-> StatSize(dirPath),
    lastModified |-> IF latestModification # <<>>
                     THEN [date |-> latestModification[1]]
                     ELSE [date |-> StatMtime(dirPath)] ]

Frame(dirPath, currentDepth) ==
  [dirPath |-> dirPath, currentDepth |-> currentDepth, at |-> "call", entries |-> <<>>]

Top(t) == Head(stack[t])

Walking(t) == pc[t] \in {"walker", "scanDirectories"} /\ stack[t] # <<>>

\* project-scanner.ts:125-136: depth bound, failed listing, excluded basename
ScanDirectoryReturns(t) ==
  \/ Top(t).currentDepth > args[t].maxDepth
  \/ ~ReaddirOk(Top(t).dirPath)
  \/ shouldExcludeFolder(basename(Top(t).dirPath), args[t].excludedFolders)

\* the classification without the sub-project check
ScanDirectoryIsProjectOwnMarkerOnly(t) ==
  /\ isProjectDirectory(Top(t).dirPath)
  /\ StatOk(Top(t).dirPath)

\* the classification looking at the age of the directory as well
ScanDirectoryIsProjectWhenRecent(t) ==
  /\ ~hasSubProjects(Top(t).dirPath, args[t].excludedFolders)
  /\ isProjectDirectory(Top(t).dirPath)
  /\ StatOk(Top(t).dirPath)
  /\ StatMtime(Top(t).dirPath) = 2

\* project-scanner.ts:140-152: not a container, a project, and stat resolves
ScanDirectoryIsProject(t) ==
  /\ ~hasSubProjects(Top(t).dirPath, args[t].excludedFolders)
  /\ isProjectDirectory(Top(t).dirPath)
  /\ StatOk(Top(t).dirPath)

\* the walker recursing also at currentDepth = maxDepth
ScanDirectoryMayRecurseInclusive(currentDepth, maxDepth) == currentDepth <= maxDepth

\* project-scanner.ts:173: the guard of the loop over the entries
ScanDirectoryMayRecurse(currentDepth, maxDepth) == currentDepth < maxDepth

\* project-scanner.ts:172-185 seen from the activation: enter the loop or return
ScanDirectoryToLoop(t) ==
  IF ScanDirectoryMayRecurse(Top(t).currentDepth, args[t].maxDepth)
  THEN << [Top(t) EXCEPT !.at = "loop", !.entries = Readdir(Top(t).dirPath)] >>
       \o Tail(stack[t])
  ELSE Tail(stack[t])

\* the push not followed by a return: the activation goes on to its loop
ScanDirectoryAfterPushFallsThrough(t) == ScanDirectoryToLoop(t)

\* project-scanner.ts:165: return after the push
ScanDirectoryAfterPush(t) == Tail(stack[t])

\* scanDirectory returns before it lists or classifies anything
ScanDirectorySkip(t) ==
  /\ Walking(t) /\ Top(t).at = "call"
  /\ ScanDirectoryReturns(t)
  /\ stack' = [stack EXCEPT ![t] = Tail(@)]
  /\ calls' = [calls EXCEPT ![t] = Append(@, [dirPath |-> Top(t).dirPath,
                                               currentDepth |-> Top(t).currentDepth])]
  /\ UNCHANGED << scanVars, fs, args, pc, foundProjects, recencySeen >>

\* scanDirectory pushes the directory and returns without recursing
ScanDirectoryEmit(t) ==
  /\ Walking(t) /\ Top(t).at = "call"
  /\ ~ScanDirectoryReturns(t)
  /\ ScanDirectoryIsProject(t)
  /\ LET latest == getLatestFileModification(Top(t).dirPath, args[t].excludedFolders, 2)
     IN /\ foundProjects' = [foundProjects EXCEPT ![t] =
                               Append(@, ProjectEntry(Top(t).dirPath, latest.latestDate))]
        /\ recencySeen' = [recencySeen EXCEPT ![t] = @ \cup latest.seen]
  /\ stack' = [stack EXCEPT ![t] = ScanDirectoryAfterPush(t)]
  /\ calls' = [calls EXCEPT ![t] = Append(@, [dirPath |-> Top(t).dirPath,
                                               currentDepth |-> Top(t).currentDepth])]
  /\ UNCHANGED << scanVars, fs, args, pc >>

\* scanDirectory reaches the loop over its entries (or skips it at maxDepth)
ScanDirectoryDescend(t) ==
  /\ Walking(t) /\ Top(t).at = "call"
  /\ ~ScanDirectoryReturns(t)
  /\ ~ScanDirectoryIsProject(t)
  /\ stack' = [stack EXCEPT ![t] = ScanDirectoryToLoop(t)]
  /\ calls' = [calls EXCEPT ![t] = Append(@, [dirPath |-> Top(t).dirPath,
                                               currentDepth |-> Top(t).currentDepth])]
  /\ UNCHANGED << scanVars, fs, args, pc, foundProjects, recencySeen >>

\* the loop recursing only into children that are projects themselves
ScanDirectoryRecursesIntoProjectsOnly(fullPath, entry, excludedFolders) ==
  /\ StatOk(fullPath)
  /\ IsDirectory(fullPath)
  /\ ~shouldExcludeFolder(entry, excludedFolders)
  /\ isProjectDirectory(fullPath)

\* project-scanner.ts:178: the child is a directory and its name is not excluded
ScanDirectoryRecurses(fullPath, entry, excludedFolders) ==
  /\ StatOk(fullPath)
  /\ IsDirectory(fullPath)
  /\ ~shouldExcludeFolder(entry, excludedFolders)

\* the loop inside one try block: a child whose stat fails ends the loop
ScanDirectoryAfterFailedStatReturns(t) == Tail(stack[t])

\* project-scanner.ts:176-183: the catch inside the loop, the next entry follows
ScanDirectoryAfterFailedStat(t) ==
  << [Top(t) EXCEPT !.entries = Tail(@)] >> \o Tail(stack[t])

\* the recursive call that hands its own depth on
ChildDepthSame(currentDepth) == currentDepth

\* project-scanner.ts:179: currentDepth + 1
ChildDepth(currentDepth) == currentDepth + 1

\* one iteration of the loop at project-scanner.ts:174-184
ScanDirectoryLoop(t) ==
  /\ Walking(t) /\ Top(t).at = "loop"
  /\ Top(t).entries # <<>>
  /\ LET entry == Head(Top(t).entries)
         fullPath == join(Top(t).dirPath, entry)
         rest == << [Top(t) EXCEPT !.entries = Tail(@)] >> \o Tail(stack[t])
     IN stack' = [stack EXCEPT ![t] =
                    IF ~StatOk(fullPath) THEN ScanDirectoryAfterFailedStat(t)
                    ELSE IF ScanDirectoryRecurses(fullPath, entry, args[t].excludedFolders)
                    THEN << Frame(fullPath, ChildDepth(Top(t).currentDepth)) >> \o rest
                    ELSE rest]
  /\ UNCHANGED << scanVars, fs, args, pc, foundProjects, calls, recencySeen >>

\* the loop is exhausted and scanDirectory returns
ScanDirectoryLoopEnd(t) ==
  /\ Walking(t) /\ Top(t).at = "loop"
  /\ Top(t).entries = <<>>
  /\ stack' = [stack EXCEPT ![t] = Tail(@)]
  /\ UNCHANGED << scanVars, fs, args, pc, foundProjects, calls, recencySeen >>

\* ------------------------------------------------------------- storage.ts
CACHE_KEY == "project-cache"

CACHE_TIMESTAMP_KEY == "cache-timestamp"

FAVORITES_KEY == "favorites"

HISTORY_KEY == "history"

SSH_FAVORITES_KEY == "ssh-favorites"

SSH_HISTORY_KEY == "ssh-history"

MAX_HISTORY_ITEMS == 50

MAX_SSH_HISTORY_ITEMS == 50

StorageKeys == { FAVORITES_KEY, HISTORY_KEY, CACHE_KEY, CACHE_TIMESTAMP_KEY,
                 SSH_FAVORITES_KEY, SSH_HISTORY_KEY }

CACHE_DURATION_MS == 24 * 60 * 60 * 1000

\* JSON.stringify of a field value: a Date is written as its ISO string
toJSON(v) == IF "date" \in DOMAIN v THEN [iso |-> v.date] ELSE v

\* JSON.stringify(projects): the text, kept as the values it denotes
JSONstringify(list) ==
  [text |-> [i \in 1..Len(list) |-> [list[i] EXCEPT !.lastModified = toJSON(@)]]]

\* JSON.parse(text): strings stay strings, no reviver
JSONparse(json) == json.text

\* a slot whose text is not JSON; JSON.parse raises SyntaxError on it
CorruptJson == [corrupt |-> TRUE]

JSONparseThrows(json) == "text" \notin DOMAIN json

\* Date.now().toString() and the string-to-number coercion of the subtraction
NumberToString(n) == [digits |-> n]

ToNumber(str) == str.digits

\* the expiry test with a record of exactly 24h counted as expired
CacheExpiredAtLimit(cacheAge) == cacheAge >= CACHE_DURATION_MS

\* storage.ts:88: cacheAge > CACHE_DURATION_MS
CacheExpired(cacheAge) == cacheAge > CACHE_DURATION_MS


\* ------------------------------------ storage.ts: favorites and history
DateFields == { "lastModified", "lastAccessed", "clonedAt" }

\* { ...r, f: v }
Spread(r, f, v) == [x \in DOMAIN r \cup {f} |-> IF x = f THEN v ELSE r[x]]

\* JSON.stringify of a list of entries: every Date field becomes its ISO string
JSONstringifyList(list) ==
  [text |-> [i \in 1..Len(list) |->
               [f \in DOMAIN list[i] |->
                  IF f \in DateFields THEN toJSON(list[i][f]) ELSE list[i][f]]]]

\* the list a get function returns for a slot: [] when the slot has no item
\* or JSON.parse raises
ListIn(items, key) ==
  IF items[key] = <<>> \/ JSONparseThrows(items[key][1]) THEN <<>>
  ELSE JSONparse(items[key][1])

GetList(key) == ListIn(store, key)

getFavorites == GetList(FAVORITES_KEY)

getHistory == GetList(HISTORY_KEY)

getSSHFavorites == GetList(SSH_FAVORITES_KEY)

getSSHHistory == GetList(SSH_HISTORY_KEY)

\* Array.prototype.findIndex on the id, 0 standing for -1
findIndex(list, id) ==
  IF \E i \in 1..Len(list) : list[i].id = id
  THEN CHOOSE i \in 1..Len(list) :
         list[i].id = id /\ \A j \in 1..(i - 1) : list[j].id # id
  ELSE 0

\* list.splice(index, 1)
splice(list, index) == SubSeq(list, 1, index - 1) \o SubSeq(list, index + 1, Len(list))

\* list.slice(0, n)
slice(list, n) == SubSeq(list, 1, IF Len(list) < n THEN Len(list) ELSE n)

\* list.filter((p) => p.id !== id)
filterOut(list, id) == SelectSeq(list, LAMBDA e : e.id # id)

\* list.some((p) => p.id === id)
some(list, id) == \E i \in 1..Len(list) : list[i].id = id

\* addFavorite that pushes without looking for the id
addFavoriteAlways(favorites, project) ==
  << Append(favorites, Spread(project, "isFavorite", TRUE)) >>

\* storage.ts:25-31: the list handed to setItem, <<>> when nothing is written
addFavorite(favorites, project) ==
  IF findIndex(favorites, project.id) = 0
  THEN << Append(favorites, Spread(project, "isFavorite", TRUE)) >>
  ELSE <<>>

\* storage.ts:33-37
removeFavorite(favorites, projectId) == << filterOut(favorites, projectId) >>

\* storage.ts:39-42
isFavorite(projectId) == some(getFavorites, projectId)

\* addToHistory that does not cut the list
addToHistoryUntrimmed(history, project, date) ==
  LET existingIndex == findIndex(history, project.id)
      spliced == IF existingIndex >= 1 THEN splice(history, existingIndex) ELSE history
  IN << << Spread(project, "lastAccessed", [date |-> date]) >> \o spliced >>

\* addToHistory that keeps an existing entry of the id
addToHistoryKeepsOld(history, project, date) ==
  << slice(<< Spread(project, "lastAccessed", [date |-> date]) >> \o history,
           MAX_HISTORY_ITEMS) >>

\* addToHistory that splices the first entry instead of the found one
addToHistorySplicesHead(history, project, date) ==
  LET existingIndex == findIndex(history, project.id)
      spliced == IF existingIndex >= 1 THEN splice(history, 1) ELSE history
      unshifted == << Spread(project, "lastAccessed", [date |-> date]) >> \o spliced
  IN << slice(unshifted, MAX_HISTORY_ITEMS) >>

\* storage.ts:54-70
addToHistory(history, project, date) ==
  LET existingIndex == findIndex(history, project.id)
      spliced == IF existingIndex >= 1 THEN splice(history, existingIndex) ELSE history
      unshifted == << Spread(project, "lastAccessed", [date |-> date]) >> \o spliced
  IN << slice(unshifted, MAX_HISTORY_ITEMS) >>

\* storage.ts:72-76
removeFromHistory(history, projectId) == << filterOut(history, projectId) >>

\* storage.ts:122-128
addSSHFavorite(favorites, host) ==
  IF findIndex(favorites, host.id) = 0
  THEN << Append(favorites, Spread(host, "isFavorite", TRUE)) >>
  ELSE <<>>

\* storage.ts:130-134
removeSSHFavorite(favorites, hostId) == << filterOut(favorites, hostId) >>

\* storage.ts:136-139
isSSHFavorite(hostId) == some(getSSHFavorites, hostId)

\* storage.ts:151-167
addToSSHHistory(history, host, date) ==
  LET existingIndex == findIndex(history, host.id)
      spliced == IF existingIndex >= 1 THEN splice(history, existingIndex) ELSE history
      unshifted == << Spread(host, "lastAccessed", [date |-> date]) >> \o spliced
  IN << slice(unshifted, MAX_SSH_HISTORY_ITEMS) >>

\* storage.ts:169-173
removeFromSSHHistory(history, hostId) == << filterOut(history, hostId) >>

\* storage.ts:179-186
updateSSHFavorite(favorites, oldHostId, updatedHost) ==
  LET index == findIndex(favorites, oldHostId)
  IN IF index >= 1
     THEN << [favorites EXCEPT ![index] = Spread(updatedHost, "isFavorite", TRUE)] >>
     ELSE <<>>

\* storage.ts:188-195
updateSSHHistory(history, oldHostId, updatedHost) ==
  LET index == findIndex(history, oldHostId)
  IN IF index >= 1 THEN << [history EXCEPT ![index] = updatedHost] >> ELSE <<>>

\* ------------------------------------------------------------ scanProjects
DigitValue(c) ==
  CASE c = "0" -> 0 [] c = "1" -> 1 [] c = "2" -> 2 [] c = "3" -> 3 [] c = "4" -> 4
    [] c = "5" -> 5 [] c = "6" -> 6 [] c = "7" -> 7 [] c = "8" -> 8 [] c = "9" -> 9
    [] OTHER -> -1

RECURSIVE ParseDigits(_, _)
\* the longest digit prefix of s, as <<>> (no digit) or <<value>>
ParseDigits(s, acc) ==
  IF s = <<>> \/ DigitValue(Head(s)) < 0 THEN acc
  ELSE ParseDigits(Tail(s), << (IF acc = <<>> THEN 0 ELSE acc[1]) * 10 + DigitValue(Head(s)) >>)

\* parseInt(s): <<>> stands for NaN
parseInt(s) ==
  LET t == trimStart(s)
      neg == t # <<>> /\ Head(t) = "-"
      body == IF t # <<>> /\ Head(t) \in {"-", "+"} THEN Tail(t) ELSE t
      n == ParseDigits(body, <<>>)
  IN IF n = <<>> THEN <<>> ELSE IF neg THEN << 0 - n[1] >> ELSE n

\* project-scanner.ts:199: parseInt(preferences.scanDepth) || 3
ScanDepth(prefs) ==
  LET n == parseInt(prefs.scanDepth)
  IN IF n = <<>> \/ n[1] = 0 THEN 3 ELSE n[1]

\* project-scanner.ts:200-203
ExcludedFolders(prefs) ==
  SelectSeq([i \in 1..Len(prefs.excludedFolders) |-> trim(prefs.excludedFolders[i])],
            LAMBDA f : Len(f) > 0)

\* trim of a path string: blanks leave its first and its last name
TrimPath(d) ==
  IF d = <<>> THEN d
  ELSE LET a == [d EXCEPT ![1] = trimStart(@)]
       IN [a EXCEPT ![Len(a)] = trimEnd(@)]

PathIsEmpty(d) == \A k \in 1..Len(d) : d[k] = <<>>

\* project-scanner.ts:205-208
DirectoriesToScan(prefs) ==
  SelectSeq([i \in 1..Len(prefs.scanDirectories) |-> TrimPath(prefs.scanDirectories[i])],
            LAMBDA d : ~PathIsEmpty(d))

HomePath == << <<"h","o","m","e">> >>

\* project-scanner.ts:219-224 (process.platform is not win32)
DefaultDirectories ==
  << join(HomePath, <<"D","o","c","u","m","e","n","t","s">>),
     join(HomePath, <<"D","e","s","k","t","o","p">>),
     join(HomePath, <<"P","r","o","j","e","c","t","s">>),
     join(HomePath, <<"p","r","o","j","e","c","t","s">>) >>

\* project-scanner.ts:227
Directories(prefs) ==
  IF Len(DirectoriesToScan(prefs)) > 0 THEN DirectoriesToScan(prefs) ELSE DefaultDirectories

\* project-scanner.ts:232: dir.replace(/^~/, HOME)
ExpandedPath(dir) ==
  IF dir # <<>> /\ dir[1] # <<>> /\ Head(dir[1]) = "~"
  THEN HomePath \o << Tail(dir[1]) >> \o Tail(dir)
  ELSE dir

RootW == << NameW >>

DefaultPreferences ==
  [ scanDirectories |-> << RootW >>, scanDepth |-> <<"2">>, excludedFolders |-> <<>> ]

PreferenceChoices ==
  { [ scanDirectories |-> << RootW, RootW >>, scanDepth |-> <<"1">>,
      excludedFolders |-> <<>> ],
    [ scanDirectories |-> << RootW, << <<" ">> >>, <<NameW, NameA>> >>,
      scanDepth |-> <<"x">>, excludedFolders |-> << <<" ", "n">>, <<" ">> >> ],
    [ scanDirectories |-> << << <<>> >> >>, scanDepth |-> <<"0">>,
      excludedFolders |-> <<>> ] }

\* the locals of one loadData call; the fields from walked on only record what
\* the call did and saw
NoLocals ==
  [ forceRefresh |-> FALSE, preferences |-> DefaultPreferences,
    directories |-> <<>>, i |-> 0,
    timestamp |-> <<>>, cacheAge |-> 0, cacheJson |-> <<>>,
    walked |-> FALSE,      \* the walk of scanProjects was started
    requestId |-> 0,       \* cacheId when loadData was invoked
    removed |-> {},        \* the keys this call removed
    entryNow |-> 0,        \* the clock when the timestamp was read
    entryStore |-> <<>>,   \* <<the store>> when the timestamp was read
    readDone |-> FALSE,    \* the cache slot was read
    readId |-> 0 ]         \* cacheId when the cache slot was read

Idle == [t \in Tasks |-> <<>>]

\* one invocation of a storage function: its arguments (p: <<entry>>, id), the
\* list its get returned, the list its continuation handed to setItem, the
\* Date it took, how far it is, and whether its get resolved while another
\* invocation on the same slot was between its get and its set
NoCall ==
  [ fn |-> "", key |-> "", p |-> <<>>, id |-> 0,
    list |-> <<>>, wrote |-> <<>>, date |-> 0, phase |-> "none", raced |-> FALSE ]

\* what is left of an invocation when its promise has resolved
Resolved(c) ==
  [NoCall EXCEPT !.fn = c.fn, !.key = c.key, !.id = c.id,
                 !.raced = c.raced, !.phase = "returned"]

NoCalls == [t \in Tasks |-> NoCall]

\* no handler has run: the arguments of a handler (p: <<entity>>, old: <<the
\* host before the edit>>, name, port), the storage calls it still has to make,
\* and what happened (existing, launched, failed, ended)
NoAction ==
  [ kind |-> "", p |-> <<>>, old |-> <<>>, name |-> <<>>, port |-> <<>>,
    script |-> <<>>, existing |-> FALSE, launched |-> FALSE, failed |-> "",
    ended |-> FALSE, storeAtStart |-> <<>> ]

\* loadData that never clears the cache
LoadDataClearsNever(forceRefresh) == FALSE

\* part_006:60: if (forceRefresh)
LoadDataClears(forceRefresh) == forceRefresh

\* part_006:28 and 56-62: loadData is invoked (on mount, after an action, by
\* Refresh) with the preferences getPreferenceValues returned to this render
LoadData(t, forceRefresh) ==
  /\ pc[t] = "idle"
  /\ t = "t2" => pc["t1"] # "idle"
  /\ \E p \in PreferenceChoices :
        local' = [local EXCEPT ![t] = [NoLocals EXCEPT !.forceRefresh = forceRefresh,
                                                      !.preferences = p,
                                                      !.requestId = cacheId]]
  /\ pc' = [pc EXCEPT ![t] = IF LoadDataClears(forceRefresh)
                             THEN "clearCache" ELSE "getCachedProjects"]
  /\ stack' = [stack EXCEPT ![t] = <<>>]
  /\ foundProjects' = [foundProjects EXCEPT ![t] = <<>>]
  /\ calls' = [calls EXCEPT ![t] = <<>>]
  /\ recencySeen' = [recencySeen EXCEPT ![t] = {}]
  /\ result' = [result EXCEPT ![t] = <<>>]
  /\ UNCHANGED << fs, args, now, store, projects, written, cacheId,
                  removedBy, ticks, appVars >>

\* storage.ts:107: removeItem(CACHE_KEY)
ClearCacheRecord(t) ==
  /\ pc[t] = "clearCache"
  /\ store' = [store EXCEPT ![CACHE_KEY] = <<>>]
  /\ cacheId' = 0
  /\ removedBy' = removedBy \cup { local[t].forceRefresh }
  /\ pc' = [pc EXCEPT ![t] = "clearTimestamp"]
  /\ local' = [local EXCEPT ![t].removed = @ \cup {CACHE_KEY}]
  /\ UNCHANGED << fs, args, stack, foundProjects, calls, recencySeen, now,
                  projects, result, written, ticks, appVars >>

\* storage.ts:108: removeItem(CACHE_TIMESTAMP_KEY)
ClearCacheTimestamp(t) ==
  /\ pc[t] = "clearTimestamp"
  /\ store' = [store EXCEPT ![CACHE_TIMESTAMP_KEY] = <<>>]
  /\ removedBy' = removedBy \cup { local[t].forceRefresh }
  /\ pc' = [pc EXCEPT ![t] = "getCachedProjects"]
  /\ local' = [local EXCEPT ![t].removed = @ \cup {CACHE_TIMESTAMP_KEY}]
  /\ UNCHANGED << fs, args, stack, foundProjects, calls, recencySeen, now,
                  projects, result, written, cacheId, ticks, appVars >>

\* project-scanner.ts:198-227: the locals of a scan that missed the cache
ScanLocals(t, l) ==
  [l EXCEPT !.directories = Directories(local[t].preferences), !.i = 1, !.walked = TRUE]

ScanArgs(t) ==
  [maxDepth |-> ScanDepth(local[t].preferences),
   excludedFolders |-> ExcludedFolders(local[t].preferences)]

\* storage.ts:84-90: read the timestamp, test the age
GetCachedTimestamp(t) ==
  /\ pc[t] = "getCachedProjects"
  /\ LET timestamp == store[CACHE_TIMESTAMP_KEY]
         cacheAge == IF timestamp = <<>> THEN 0 ELSE now - ToNumber(timestamp[1])
         seen == [local[t] EXCEPT !.timestamp = timestamp, !.cacheAge = cacheAge,
                                  !.entryNow = now, !.entryStore = << store >>]
     IN IF timestamp = <<>> \/ CacheExpired(cacheAge)
        THEN /\ local' = [local EXCEPT ![t] = ScanLocals(t, seen)]
             /\ args' = [args EXCEPT ![t] = ScanArgs(t)]
             /\ pc' = [pc EXCEPT ![t] = "scanDirectories"]
        ELSE /\ local' = [local EXCEPT ![t] = seen]
             /\ args' = args
             /\ pc' = [pc EXCEPT ![t] = "getCacheJson"]
  /\ UNCHANGED << fs, stack, foundProjects, calls, recencySeen, now, store,
                  projects, result, written, cacheId, removedBy, ticks, appVars >>

\* storage.ts:92-98 and project-scanner.ts:193-196: read the record, return it;
\* no record, or a record JSON.parse raises on, is a miss
GetCachedJson(t) ==
  /\ pc[t] = "getCacheJson"
  /\ LET cacheJson == store[CACHE_KEY]
         seen == [local[t] EXCEPT !.cacheJson = cacheJson, !.readId = cacheId,
                                  !.readDone = TRUE]
     IN IF cacheJson = <<>> \/ JSONparseThrows(cacheJson[1])
        THEN /\ local' = [local EXCEPT ![t] = ScanLocals(t, seen)]
             /\ args' = [args EXCEPT ![t] = ScanArgs(t)]
             /\ pc' = [pc EXCEPT ![t] = "scanDirectories"]
             /\ result' = result
        ELSE /\ local' = [local EXCEPT ![t] = seen]
             /\ args' = args
             /\ pc' = [pc EXCEPT ![t] = "setProjects"]
             /\ result' = [result EXCEPT ![t] = << JSONparse(cacheJson[1]) >>]
  /\ UNCHANGED << fs, stack, foundProjects, calls, recencySeen, now, store,
                  projects, written, cacheId, removedBy, ticks, appVars >>

\* project-scanner.ts:230-233: the next configured root is handed to the walker
ScanNextDirectory(t) ==
  /\ pc[t] = "scanDirectories"
  /\ stack[t] = <<>>
  /\ local[t].i <= Len(local[t].directories)
  /\ stack' = [stack EXCEPT ![t] = << Frame(ExpandedPath(local[t].directories[local[t].i]), 0) >>]
  /\ local' = [local EXCEPT ![t].i = @ + 1]
  /\ UNCHANGED << fs, args, pc, foundProjects, calls, recencySeen, now, store,
                  projects, result, written, cacheId, removedBy, ticks, appVars >>

\* project-scanner.ts:240 and storage.ts:102: setItem(CACHE_KEY, JSON.stringify(projects))
SetCachedRecord(t) ==
  /\ pc[t] = "scanDirectories"
  /\ stack[t] = <<>>
  /\ local[t].i > Len(local[t].directories)
  /\ store' = [store EXCEPT ![CACHE_KEY] = << JSONstringify(foundProjects[t]) >>]
  /\ written' = Append(written, foundProjects[t])
  /\ cacheId' = Len(written) + 1
  /\ pc' = [pc EXCEPT ![t] = "setTimestamp"]
  /\ UNCHANGED << fs, args, stack, foundProjects, calls, recencySeen, now,
                  projects, local, result, removedBy, ticks, appVars >>

\* storage.ts:103 and project-scanner.ts:242: stamp the record, return the list
SetCachedTimestamp(t) ==
  /\ pc[t] = "setTimestamp"
  /\ store' = [store EXCEPT ![CACHE_TIMESTAMP_KEY] = << NumberToString(now) >>]
  /\ result' = [result EXCEPT ![t] = << foundProjects[t] >>]
  /\ pc' = [pc EXCEPT ![t] = "setProjects"]
  /\ UNCHANGED << fs, args, stack, foundProjects, calls, recencySeen, now,
                  projects, local, written, cacheId, removedBy, ticks, appVars >>

\* part_006:71-83: the scanned list becomes the command's list
SetProjects(t) ==
  /\ pc[t] = "setProjects"
  /\ projects' = result[t][1]
  /\ pc' = [pc EXCEPT ![t] = "done"]
  /\ UNCHANGED << fs, args, stack, foundProjects, calls, recencySeen, now, store,
                  local, result, written, cacheId, removedBy, ticks, appVars >>

\* time passes: a millisecond, or a whole cache lifetime
Tick ==
  /\ ticks < MaxTicks
  /\ ticks' = ticks + 1
  /\ \E d \in {1, CACHE_DURATION_MS} : now' = now + d
  /\ UNCHANGED << fs, args, pc, stack, foundProjects, calls, recencySeen, store,
                  projects, local, result, written, cacheId, removedBy, appVars >>

\* --------------------------------------------- generated directory trees
ChildNames == { NameA, NameBN }

RECURSIVE PathsBelow(_, _)
PathsBelow(p, levels) ==
  IF levels = 0 THEN {p}
  ELSE {p} \cup UNION { PathsBelow(join(p, n), levels - 1) : n \in ChildNames }

IsPrefixClosed(S) ==
  \A p \in S : Len(p) > 1 => SubSeq(p, 1, Len(p) - 1) \in S

Trees ==
  { S \in SUBSET PathsBelow(RootW, MaxTreeDepth) :
      /\ RootW \in S
      /\ IsPrefixClosed(S)
      /\ Cardinality(S) <= MaxDirs + 1 }

SubsetsUpTo(S, n) == { X \in SUBSET S : Cardinality(X) <= n }

\* the tree of the end-to-end scenario: /w/a/.git, /w/b, /w/b/c/package.json
ScenarioFs ==
  [ dirs |-> { RootW, <<NameW, NameA>>, <<NameW, NameA, DotGit>>,
               <<NameW, NameB>>, <<NameW, NameB, NameC>> },
    files |-> { <<NameW, NameB, NameC, PackageJson>> },
    unreadable |-> {},
    recent |-> {},
    broken |-> {},
    links |-> {} ]

ExclusionChoices == { <<>>, << <<" ", "n">> >>, << <<"W">> >> }

InitWalk ==
  /\ \/ \E S \in Trees :
        \E M \in SUBSET S, U \in SubsetsUpTo(S, MaxUnreadable) :
           \E R \in { {}, { join(d, PackageJson) : d \in M } } :
              fs = [dirs |-> S, files |-> { join(d, PackageJson) : d \in M },
                    unreadable |-> U, recent |-> R, broken |-> {}, links |-> {}]
     \/ fs = ScenarioFs
  /\ \E d \in 0..MaxDepthBound, e \in ExclusionChoices :
        args = [t \in Tasks |-> [maxDepth |-> d, excludedFolders |-> e]]
  /\ pc = [t \in Tasks |-> IF t = "t1" THEN "walker" ELSE "idle"]
  /\ \E k \in 0..(MaxDepthBound + 1) :
        /\ k \in {0, args["t1"].maxDepth + 1}
        /\ stack = [Idle EXCEPT !["t1"] = << Frame(RootW, k) >>]
  /\ foundProjects = Idle
  /\ calls = Idle
  /\ recencySeen = [t \in Tasks |-> {}]
  /\ now = 1
  /\ store = [k \in StorageKeys |-> <<>>]
  /\ projects = <<>>
  /\ local = [t \in Tasks |-> NoLocals]
  /\ result = Idle
  /\ written = <<>>
  /\ cacheId = 0
  /\ removedBy = {}
  /\ ticks = 0
  /\ call = NoCalls
  /\ command = "open-project"
  /\ toasts = <<>>
  /\ effects = {}
  /\ cursorInstalled = <<>>
  /\ action = NoAction

NextWalk ==
  \/ ScanDirectorySkip("t1")
  \/ ScanDirectoryEmit("t1")
  \/ ScanDirectoryDescend("t1")
  \/ ScanDirectoryLoop("t1")
  \/ ScanDirectoryLoopEnd("t1")

SpecWalk == InitWalk /\ [][NextWalk]_vars

\* ------------------------------------------- the open-project command runs
\* /w/a and /w/bN are projects, /w is their container
ContainerFs ==
  [ dirs |-> { RootW, <<NameW, NameA>>, <<NameW, NameBN>> },
    files |-> { <<NameW, NameA, PackageJson>>, <<NameW, NameBN, PackageJson>> },
    unreadable |-> {},
    recent |-> { <<NameW, NameA, PackageJson>> },
    broken |-> {},
    links |-> {} ]

InitScan ==
  /\ fs = ContainerFs
  /\ args = [t \in Tasks |-> [maxDepth |-> 0, excludedFolders |-> <<>>]]
  /\ pc = [t \in Tasks |-> "idle"]
  /\ stack = Idle
  /\ foundProjects = Idle
  /\ calls = Idle
  /\ recencySeen = [t \in Tasks |-> {}]
  /\ now = 1
  /\ store = [k \in StorageKeys |-> <<>>]
  /\ projects = <<>>
  /\ local = [t \in Tasks |-> NoLocals]
  /\ result = Idle
  /\ written = <<>>
  /\ cacheId = 0
  /\ removedBy = {}
  /\ ticks = 0
  /\ call = NoCalls
  /\ command = "open-project"
  /\ toasts = <<>>
  /\ effects = {}
  /\ cursorInstalled = <<>>
  /\ action = NoAction

NextScan ==
  \/ \E t \in Tasks : LoadData(t, FALSE)
  \/ \E t \in Tasks : LoadData(t, TRUE)
  \/ \E t \in Tasks : ClearCacheRecord(t)
  \/ \E t \in Tasks : ClearCacheTimestamp(t)
  \/ \E t \in Tasks : GetCachedTimestamp(t)
  \/ \E t \in Tasks : GetCachedJson(t)
  \/ \E t \in Tasks : ScanNextDirectory(t)
  \/ \E t \in Tasks : ScanDirectorySkip(t)
  \/ \E t \in Tasks : ScanDirectoryEmit(t)
  \/ \E t \in Tasks : ScanDirectoryDescend(t)
  \/ \E t \in Tasks : ScanDirectoryLoop(t)
  \/ \E t \in Tasks : ScanDirectoryLoopEnd(t)
  \/ \E t \in Tasks : SetCachedRecord(t)
  \/ \E t \in Tasks : SetCachedTimestamp(t)
  \/ \E t \in Tasks : SetProjects(t)
  \/ Tick

SpecScan == InitScan /\ [][NextScan]_vars

\* ------------------------------------- the storage functions as processes
Project(id) == [id |-> id, name |-> id, path |-> id, type |-> "local"]

SSHHost(id) == [id |-> id, host |-> id]

\* part_007:411-425: the host of the edit form, here with a new alias
EditedHost(id) == Spread(SSHHost(id), "alias", "y")

\* part_007:186
idChanged(oldHost, updatedHost) == oldHost.id # updatedHost.id

\* the ids the calls are made with: one already in a full history, one not
ProjectIds == { 1, MAX_HISTORY_ITEMS + 1 }

HostIds == { 1, MAX_SSH_HISTORY_ITEMS + 1 }

\* the ids that are made favorites
FavoriteIds == { 1 }

\* the stored history after n different ids were added, id 1 first
FullHistory(n) ==
  [i \in 1..n |-> [id |-> n + 1 - i, name |-> n + 1 - i, path |-> n + 1 - i,
                   type |-> "local", lastAccessed |-> [iso |-> 0]]]

FullSSHHistory(n) ==
  [i \in 1..n |-> [id |-> n + 1 - i, host |-> n + 1 - i,
                   lastAccessed |-> [iso |-> 0]]]

CanCall(t, cmd) ==
  /\ command = cmd
  /\ pc[t] = "idle"
  /\ call[t].phase \in {"none", "returned"}
  /\ t = "t2" => call["t1"].phase # "none"

Invoke(t, fn, key, p, id, phase) ==
  call' = [call EXCEPT ![t] = [NoCall EXCEPT !.fn = fn, !.key = key, !.p = p,
                                             !.id = id, !.phase = phase]]

StoreIdle == << fs, args, pc, stack, foundProjects, calls, recencySeen, now, store,
                projects, local, result, written, cacheId, removedBy, ticks, command,
                uiVars >>

CallAddFavorite(t, project) ==
  /\ CanCall(t, "open-project")
  /\ Invoke(t, "addFavorite", FAVORITES_KEY, << project >>, project.id, "read")
  /\ UNCHANGED StoreIdle

CallRemoveFavorite(t, projectId) ==
  /\ CanCall(t, "open-project")
  /\ Invoke(t, "removeFavorite", FAVORITES_KEY, <<>>, projectId, "read")
  /\ UNCHANGED StoreIdle

CallAddToHistory(t, project) ==
  /\ CanCall(t, "open-project")
  /\ Invoke(t, "addToHistory", HISTORY_KEY, << project >>, project.id, "read")
  /\ UNCHANGED StoreIdle

CallRemoveFromHistory(t, projectId) ==
  /\ CanCall(t, "open-project")
  /\ Invoke(t, "removeFromHistory", HISTORY_KEY, <<>>, projectId, "read")
  /\ UNCHANGED StoreIdle

\* storage.ts:78-80
CallClearHistory(t) ==
  /\ CanCall(t, "open-project")
  /\ Invoke(t, "clearHistory", HISTORY_KEY, <<>>, 0, "remove")
  /\ UNCHANGED StoreIdle

CallAddSSHFavorite(t, host) ==
  /\ CanCall(t, "connect-ssh")
  /\ Invoke(t, "addSSHFavorite", SSH_FAVORITES_KEY, << host >>, host.id, "read")
  /\ UNCHANGED StoreIdle

CallRemoveSSHFavorite(t, hostId) ==
  /\ CanCall(t, "connect-ssh")
  /\ Invoke(t, "removeSSHFavorite", SSH_FAVORITES_KEY, <<>>, hostId, "read")
  /\ UNCHANGED StoreIdle

CallAddToSSHHistory(t, host) ==
  /\ CanCall(t, "connect-ssh")
  /\ Invoke(t, "addToSSHHistory", SSH_HISTORY_KEY, << host >>, host.id, "read")
  /\ UNCHANGED StoreIdle

CallRemoveFromSSHHistory(t, hostId) ==
  /\ CanCall(t, "connect-ssh")
  /\ Invoke(t, "removeFromSSHHistory", SSH_HISTORY_KEY, <<>>, hostId, "read")
  /\ UNCHANGED StoreIdle

\* storage.ts:175-177
CallClearSSHHistory(t) ==
  /\ CanCall(t, "connect-ssh")
  /\ Invoke(t, "clearSSHHistory", SSH_HISTORY_KEY, <<>>, 0, "remove")
  /\ UNCHANGED StoreIdle

\* part_007:201-206: the edit handler updates in place when the id is unchanged
CallUpdateSSHFavorite(t, oldHost, updatedHost) ==
  /\ CanCall(t, "connect-ssh")
  /\ ~idChanged(oldHost, updatedHost)
  /\ Invoke(t, "updateSSHFavorite", SSH_FAVORITES_KEY, << updatedHost >>, oldHost.id, "read")
  /\ UNCHANGED StoreIdle

\* part_007:217-222
CallUpdateSSHHistory(t, oldHost, updatedHost) ==
  /\ CanCall(t, "connect-ssh")
  /\ ~idChanged(oldHost, updatedHost)
  /\ Invoke(t, "updateSSHHistory", SSH_HISTORY_KEY, << updatedHost >>, oldHost.id, "read")
  /\ UNCHANGED StoreIdle

\* the list the continuation of the get hands to setItem, <<>> when it returns
\* without writing
Continuation(c, list, date) ==
  CASE c.fn = "addFavorite" -> addFavorite(list, c.p[1])
    [] c.fn = "removeFavorite" -> removeFavorite(list, c.id)
    [] c.fn = "addToHistory" -> addToHistory(list, c.p[1], date)
    [] c.fn = "removeFromHistory" -> removeFromHistory(list, c.id)
    [] c.fn = "addSSHFavorite" -> addSSHFavorite(list, c.p[1])
    [] c.fn = "removeSSHFavorite" -> removeSSHFavorite(list, c.id)
    [] c.fn = "addToSSHHistory" -> addToSSHHistory(list, c.p[1], date)
    [] c.fn = "removeFromSSHHistory" -> removeFromSSHHistory(list, c.id)
    [] c.fn = "updateSSHFavorite" -> updateSSHFavorite(list, c.id, c.p[1])
    [] c.fn = "updateSSHHistory" -> updateSSHHistory(list, c.id, c.p[1])

\* a get function that lets the SyntaxError of JSON.parse out
GetThrowsOnCorruptJson(key) == store[key] # <<>> /\ JSONparseThrows(store[key][1])

\* storage.ts:16-22, 45-51, 113-119, 142-148: every get catches and returns []
GetThrows(key) == FALSE

\* LocalStorage.getItem resolves: the function's get returns the list and the
\* function runs on to its setItem call (or to its end); a get that raised
\* would reject the function
GetItem(t) ==
  /\ call[t].phase = "read"
  /\ LET list == GetList(call[t].key)
         wrote == Continuation(call[t], list, now)
         raced == \E u \in Tasks \ {t} :
                     call[u].phase = "write" /\ call[u].key = call[t].key
         seen == [call[t] EXCEPT !.list = list, !.wrote = wrote, !.date = now,
                                 !.raced = raced, !.phase = "write"]
     IN call' = [call EXCEPT ![t] =
                   IF GetThrows(call[t].key) THEN [call[t] EXCEPT !.phase = "rejected"]
                   ELSE IF wrote = <<>> THEN Resolved(seen) ELSE seen]
  /\ UNCHANGED StoreIdle

\* LocalStorage.setItem(key, JSON.stringify(list)) takes effect and resolves
SetItem(t) ==
  /\ call[t].phase = "write"
  /\ store' = [store EXCEPT ![call[t].key] = << JSONstringifyList(call[t].wrote[1]) >>]
  /\ call' = [call EXCEPT ![t] = Resolved(@)]
  /\ UNCHANGED << fs, args, pc, stack, foundProjects, calls, recencySeen, now,
                  projects, local, result, written, cacheId, removedBy, ticks, command,
                  uiVars >>

\* LocalStorage.removeItem(key) takes effect and resolves
RemoveItem(t) ==
  /\ call[t].phase = "remove"
  /\ store' = [store EXCEPT ![call[t].key] = <<>>]
  /\ call' = [call EXCEPT ![t] = Resolved(@)]
  /\ UNCHANGED << fs, args, pc, stack, foundProjects, calls, recencySeen, now,
                  projects, local, result, written, cacheId, removedBy, ticks, command,
                  uiVars >>

EmptyStore == [k \in StorageKeys |-> <<>>]

InitStore ==
  /\ fs = ContainerFs
  /\ args = [t \in Tasks |-> [maxDepth |-> 0, excludedFolders |-> <<>>]]
  /\ pc = [t \in Tasks |-> "idle"]
  /\ stack = Idle
  /\ foundProjects = Idle
  /\ calls = Idle
  /\ recencySeen = [t \in Tasks |-> {}]
  /\ now = 1
  /\ \/ /\ command = "open-project"
        /\ store = [EmptyStore EXCEPT ![HISTORY_KEY] =
                      << JSONstringifyList(FullHistory(MAX_HISTORY_ITEMS)) >>]
     \/ /\ command = "connect-ssh"
        /\ store = EmptyStore
  /\ projects = <<>>
  /\ local = [t \in Tasks |-> NoLocals]
  /\ result = Idle
  /\ written = <<>>
  /\ cacheId = 0
  /\ removedBy = {}
  /\ ticks = 0
  /\ call = NoCalls
  /\ toasts = <<>>
  /\ effects = {}
  /\ cursorInstalled = <<>>
  /\ action = NoAction

NextStore ==
  \/ \E t \in Tasks, id \in FavoriteIds : CallAddFavorite(t, Project(id))
  \/ \E t \in Tasks, id \in FavoriteIds : CallRemoveFavorite(t, id)
  \/ \E t \in Tasks, id \in ProjectIds : CallAddToHistory(t, Project(id))
  \/ \E t \in Tasks, id \in ProjectIds : CallRemoveFromHistory(t, id)
  \/ \E t \in Tasks : CallClearHistory(t)
  \/ \E t \in Tasks, id \in FavoriteIds : CallAddSSHFavorite(t, SSHHost(id))
  \/ \E t \in Tasks, id \in FavoriteIds : CallRemoveSSHFavorite(t, id)
  \/ \E t \in Tasks, id \in HostIds : CallAddToSSHHistory(t, SSHHost(id))
  \/ \E t \in Tasks, id \in HostIds : CallRemoveFromSSHHistory(t, id)
  \/ \E t \in Tasks : CallClearSSHHistory(t)
  \/ \E t \in Tasks, id \in FavoriteIds : CallUpdateSSHFavorite(t, SSHHost(id), EditedHost(id))
  \/ \E t \in Tasks, id \in FavoriteIds : CallUpdateSSHHistory(t, SSHHost(id), EditedHost(id))
  \/ \E t \in Tasks : GetItem(t)
  \/ \E t \in Tasks : SetItem(t)
  \/ \E t \in Tasks : RemoveItem(t)

SpecStore == InitStore /\ [][NextStore]_vars

\* --------------------------- the storage functions called one after another
InitHistory ==
  /\ fs = ContainerFs
  /\ args = [t \in Tasks |-> [maxDepth |-> 0, excludedFolders |-> <<>>]]
  /\ pc = [t \in Tasks |-> "idle"]
  /\ stack = Idle
  /\ foundProjects = Idle
  /\ calls = Idle
  /\ recencySeen = [t \in Tasks |-> {}]
  /\ now = 1
  /\ \/ /\ command = "open-project"
        /\ store \in { EmptyStore,
                       [EmptyStore EXCEPT ![HISTORY_KEY] =
                          << JSONstringifyList(FullHistory(MAX_HISTORY_ITEMS)) >>] }
     \/ /\ command = "connect-ssh"
        /\ store \in { EmptyStore,
                       [EmptyStore EXCEPT ![SSH_HISTORY_KEY] =
                          << JSONstringifyList(FullSSHHistory(MAX_SSH_HISTORY_ITEMS)) >>] }
  /\ projects = <<>>
  /\ local = [t \in Tasks |-> NoLocals]
  /\ result = Idle
  /\ written = <<>>
  /\ cacheId = 0
  /\ removedBy = {}
  /\ ticks = 0
  /\ call = NoCalls
  /\ toasts = <<>>
  /\ effects = {}
  /\ cursorInstalled = <<>>
  /\ action = NoAction

NextHistory ==
  \/ \E id \in ProjectIds : CallAddFavorite("t1", Project(id))
  \/ \E id \in ProjectIds : CallRemoveFavorite("t1", id)
  \/ \E id \in ProjectIds : CallAddToHistory("t1", Project(id))
  \/ \E id \in ProjectIds : CallRemoveFromHistory("t1", id)
  \/ CallClearHistory("t1")
  \/ \E id \in HostIds : CallAddSSHFavorite("t1", SSHHost(id))
  \/ \E id \in HostIds : CallRemoveSSHFavorite("t1", id)
  \/ \E id \in HostIds : CallAddToSSHHistory("t1", SSHHost(id))
  \/ \E id \in HostIds : CallRemoveFromSSHHistory("t1", id)
  \/ CallClearSSHHistory("t1")
  \/ \E id \in HostIds : CallUpdateSSHFavorite("t1", SSHHost(id), EditedHost(id))
  \/ \E id \in HostIds : CallUpdateSSHHistory("t1", SSHHost(id), EditedHost(id))
  \/ GetItem("t1")
  \/ SetItem("t1")
  \/ RemoveItem("t1")
  \/ Tick

SpecHistory == InitHistory /\ [][NextHistory]_vars


\* ------------------------------------------------- properties of the walk
Range(seq) == { seq[i] : i \in 1..Len(seq) }

Parent(p) == SubSeq(p, 1, Len(p) - 1)

IsBelow(p, q) == Len(p) > Len(q) /\ SubSeq(p, 1, Len(q)) = q

ChildDirs(D) == { C \in fs.dirs : Len(C) = Len(D) + 1 /\ Parent(C) = D }

\* D directly contains a file or folder named like a marker
ContainsMarker(D) ==
  \E m \in Range(PROJECT_INDICATORS) : join(D, m) \in fs.dirs \cup fs.files

\* the exclusion rule in the words of the specification: the lower-cased name
\* contains a lower-cased, trimmed pattern at some position
MatchesExclusion(name, patterns) ==
  \E pat \in Range(patterns) :
     LET q == trim(toLowerCase(pat)) IN
     \E off \in 0..Len(name) :
        /\ off + Len(q) <= Len(name)
        /\ \A j \in 1..Len(q) : ToLowerChar(name[off + j]) = q[j]

WalkDone == pc["t1"] = "walker" /\ stack["t1"] = <<>> /\ calls["t1"] # <<>>

StartDepth == calls["t1"][1].currentDepth

\* activations that passed the depth bound and listed their directory
Visits == { c \in Range(calls["t1"]) :
              c.currentDepth <= args["t1"].maxDepth /\ ReaddirOk(c.dirPath) }

EmittedAt(D) == { i \in 1..Len(foundProjects["t1"]) : foundProjects["t1"][i].path = D }

EmittedPaths == { foundProjects["t1"][i].path : i \in 1..Len(foundProjects["t1"]) }

QualifiesC1(c) ==
  /\ c \in Visits
  /\ ~shouldExcludeFolder(basename(c.dirPath), args["t1"].excludedFolders)
  /\ ContainsMarker(c.dirPath)
  /\ \A C \in ChildDirs(c.dirPath) :
        shouldExcludeFolder(basename(C), args["t1"].excludedFolders) \/ ~ContainsMarker(C)

\* C1: every directory the walker visits within the depth bound that is not
\* excluded, directly contains a marker and has no non-excluded child directory
\* containing a marker is in the accumulator exactly once, as an entry with
\* id = path = D, name = basename(D) and type "local".
C1_QualifyingDirectoryEmittedOnce ==
  \A c \in Range(calls["t1"]) :
     QualifiesC1(c) =>
        /\ Cardinality(EmittedAt(c.dirPath)) = 1
        /\ \A i \in EmittedAt(c.dirPath) :
              /\ foundProjects["t1"][i].id = c.dirPath
              /\ foundProjects["t1"][i].name = basename(c.dirPath)
              /\ foundProjects["t1"][i].type = "local"

\* a qualifying directory below the root whose excluded child holds a marker
C1_Witness ==
  /\ WalkDone
  /\ \E c \in Range(calls["t1"]) :
        /\ QualifiesC1(c)
        /\ c.currentDepth > 0
        /\ \E C \in ChildDirs(c.dirPath) : ContainsMarker(C)

HasQualifyingChild(D) ==
  \E C \in ChildDirs(D) :
     /\ ~shouldExcludeFolder(basename(C), args["t1"].excludedFolders)
     /\ ContainsMarker(C)

\* C2: a visited directory with a non-excluded immediate child directory that
\* contains a marker is a container: no entry is emitted for it, whether or
\* not it contains a marker itself.
C2_ContainerNotEmitted ==
  \A c \in Visits : HasQualifyingChild(c.dirPath) => EmittedAt(c.dirPath) = {}

\* a visited container that carries a marker of its own
C2_Witness ==
  /\ WalkDone
  /\ \E c \in Visits :
        /\ HasQualifyingChild(c.dirPath)
        /\ ContainsMarker(c.dirPath)
        /\ ~shouldExcludeFolder(basename(c.dirPath), args["t1"].excludedFolders)

\* C3: within one walker invocation the emitted paths are pairwise distinct
\* and no emitted path lies below another emitted path.
C3_EmittedDistinctAndNotNested ==
  \A i, j \in 1..Len(foundProjects["t1"]) :
     i # j =>
        /\ foundProjects["t1"][i].path # foundProjects["t1"][j].path
        /\ ~IsBelow(foundProjects["t1"][i].path, foundProjects["t1"][j].path)

\* an emitted directory above a marker-carrying directory that the depth
\* budget would still have reached
C3_Witness ==
  /\ WalkDone
  /\ StartDepth = 0
  /\ \E D \in EmittedPaths :
        \E C \in fs.dirs :
           /\ IsBelow(C, D)
           /\ ContainsMarker(C)
           /\ Len(C) - 1 <= args["t1"].maxDepth
           /\ \A k \in (Len(D) + 1)..Len(C) :
                 ~shouldExcludeFolder(C[k], args["t1"].excludedFolders)

IsExcludedName(name) == MatchesExclusion(name, args["t1"].excludedFolders)

\* C4: a directory whose lower-cased basename contains a lower-cased, trimmed
\* exclusion pattern is never emitted, nothing is walked inside it, it does
\* not make its parent a container, and neither it nor anything below it
\* enters a recency result; the root is treated like its descendants.
C4_ExcludedDirectoryPruned ==
  /\ \A D \in EmittedPaths : \A k \in 1..Len(D) : ~IsExcludedName(D[k])
  /\ \A i \in 1..Len(calls["t1"]) :
        i > 1 => \A k \in 1..Len(calls["t1"][i].dirPath) :
                    ~IsExcludedName(calls["t1"][i].dirPath[k])
  /\ \A c \in Visits :
        ( /\ ~IsExcludedName(basename(c.dirPath))
          /\ ContainsMarker(c.dirPath)
          /\ \A C \in ChildDirs(c.dirPath) :
                ContainsMarker(C) => IsExcludedName(basename(C)) )
        => EmittedAt(c.dirPath) # {}
  /\ \A p \in recencySeen["t1"] : \A k \in 1..Len(p) : ~IsExcludedName(p[k])

\* an emitted project whose excluded child directory holds a marker
C4_Witness ==
  /\ WalkDone
  /\ \E D \in EmittedPaths :
        \E C \in ChildDirs(D) :
           /\ IsExcludedName(basename(C))
           /\ basename(C) # toLowerCase(basename(C))
           /\ ContainsMarker(C)

\* C5: an activation with currentDepth > maxDepth appends nothing; the walker
\* calls itself on a child only from a depth below maxDepth; an emitted path
\* lies at most maxDepth levels below the root; with maxDepth = 0 the walker is
\* never invoked on a child.
C5_DepthBound ==
  /\ (calls["t1"] # <<>> /\ StartDepth > args["t1"].maxDepth)
        => (foundProjects["t1"] = <<>> /\ Len(calls["t1"]) = 1)
  /\ \A i \in 1..Len(calls["t1"]) :
        i > 1 => calls["t1"][i].currentDepth - 1 < args["t1"].maxDepth
  /\ \A f \in Range(stack["t1"]) :
        f.at = "call" => f.currentDepth <= args["t1"].maxDepth + 1
  /\ \A f \in Range(stack["t1"]) :
        (f.at = "call" /\ Len(f.dirPath) > 1) => f.currentDepth <= args["t1"].maxDepth
  /\ (calls["t1"] # <<>> /\ StartDepth = 0)
        => \A D \in EmittedPaths : Len(D) - Len(RootW) <= args["t1"].maxDepth
  /\ args["t1"].maxDepth = 0 => Len(calls["t1"]) <= 1

\* a walk from depth 0 that stopped at maxDepth above a directory with a marker
C5_Witness ==
  /\ WalkDone
  /\ StartDepth = 0
  /\ \E c \in Visits :
        /\ c.currentDepth = args["t1"].maxDepth
        /\ EmittedAt(c.dirPath) = {}
        /\ ~shouldExcludeFolder(basename(c.dirPath), args["t1"].excludedFolders)
        /\ \E C \in ChildDirs(c.dirPath) :
              /\ ContainsMarker(C)
              /\ ~shouldExcludeFolder(basename(C), args["t1"].excludedFolders)

\* the activations on children of D, in the order they were made
ChildCalls(D) ==
  SelectSeq(calls["t1"], LAMBDA c : Len(c.dirPath) = Len(D) + 1 /\ Parent(c.dirPath) = D)

\* the non-excluded child directories of D in listing order, one level deeper
ExpectedChildCalls(D, k) ==
  LET names == SelectSeq(Readdir(D),
                 LAMBDA e : join(D, e) \in fs.dirs
                            /\ ~shouldExcludeFolder(e, args["t1"].excludedFolders))
  IN [i \in 1..Len(names) |-> [dirPath |-> join(D, names[i]), currentDepth |-> k + 1]]

IsScenario ==
  /\ fs = ScenarioFs
  /\ args["t1"].maxDepth = 2
  /\ args["t1"].excludedFolders = <<>>
  /\ StartDepth = 0

Returned(t) == result[t] # <<>>

CacheHit(t) == Returned(t) /\ ~local[t].walked

\* C7: the list one scanProjects walk returns holds no path twice, also when a
\* root is configured twice or lies inside another configured root.
C7_NoPathTwiceInScanResult ==
  \A t \in Tasks :
     (Returned(t) /\ local[t].walked) =>
        \A i, j \in 1..Len(result[t][1]) :
           i # j => result[t][1][i].path # result[t][1][j].path

\* the store held a timestamp of at most 24h and a record when t read the timestamp
FreshAtEntry(t) ==
  /\ local[t].entryStore # <<>>
  /\ local[t].entryStore[1][CACHE_TIMESTAMP_KEY] # <<>>
  /\ local[t].entryNow - local[t].entryStore[1][CACHE_TIMESTAMP_KEY][1].digits
        <= 24 * 60 * 60 * 1000
  /\ local[t].entryStore[1][CACHE_KEY] # <<>>

\* C8: when the cache holds a record of at most 24h, scanProjects returns the
\* cached list and reads no directory, whatever the preferences of the call
\* are (the record may only have been removed by a concurrent clearCache
\* before it was read).
C8_FreshCacheIsReturnedUnwalked ==
  \A t \in Tasks :
     FreshAtEntry(t) =>
        \/ pc[t] = "getCacheJson"
        \/ /\ local[t].readDone /\ local[t].cacheJson # <<>>
           /\ result[t] = << JSONparse(local[t].cacheJson[1]) >>
           /\ ~local[t].walked
           /\ calls[t] = <<>> /\ foundProjects[t] = <<>>
        \/ local[t].readDone /\ local[t].cacheJson = <<>>

\* a hit on a record of exactly 24h, written by a call with other preferences
C8_Witness ==
  \E t, u \in Tasks :
     /\ pc[t] = "done" /\ local[t].walked
     /\ pc[u] = "done" /\ CacheHit(u)
     /\ local[u].preferences # local[t].preferences
     /\ result[u][1] = JSONparse(JSONstringify(result[t][1]))
     /\ result[u][1] # <<>>
     /\ local[u].cacheAge = CACHE_DURATION_MS

\* the store held a timestamp of at most 24h when t read it
TimestampFreshAtEntry(t) ==
  /\ local[t].entryStore[1][CACHE_TIMESTAMP_KEY] # <<>>
  /\ local[t].entryNow - local[t].entryStore[1][CACHE_TIMESTAMP_KEY][1].digits
        <= 24 * 60 * 60 * 1000

\* getCachedProjects returns none exactly when there is no timestamp, the
\* timestamp is older than 24h, or there is no record
CacheAgeRule ==
  \A t \in Tasks :
     local[t].entryStore # <<>> =>
        IF TimestampFreshAtEntry(t)
        THEN \/ pc[t] = "getCacheJson"
             \/ local[t].readDone /\ (local[t].walked <=> local[t].cacheJson = <<>>)
        ELSE local[t].walked /\ ~local[t].readDone

\* C9: setCachedProjects(L) followed by getCachedProjects() returns a list
\* equal to L; getCachedProjects returns none without a record or beyond 24h
\* and the stored list up to and including 24h.
C9_CacheRoundTripReturnsEqualList ==
  /\ \A t \in Tasks : CacheHit(t) => result[t][1] = written[local[t].readId]
  /\ CacheAgeRule

InScanProjects(t) ==
  pc[t] \in {"getCachedProjects", "getCacheJson", "scanDirectories", "setTimestamp",
             "setProjects", "done"}

\* C10: a forced loadData removes the record and the timestamp before its
\* scanProjects starts, so that scan never returns the record that was in the
\* cache when the refresh was requested; a loadData that is not forced removes
\* nothing.
C10_ForcedRefreshClearsBeforeScan ==
  /\ \A t \in Tasks :
        (local[t].forceRefresh /\ InScanProjects(t)) =>
           /\ local[t].removed = {CACHE_KEY, CACHE_TIMESTAMP_KEY}
           /\ local[t].requestId # 0 => cacheId # local[t].requestId
           /\ (CacheHit(t) /\ local[t].requestId # 0) => local[t].readId # local[t].requestId
  /\ \A t \in Tasks : ~local[t].forceRefresh => local[t].removed = {}
  /\ FALSE \notin removedBy

\* a forced refresh requested while the cache held a fresh record, finished
C10_Witness ==
  \E t \in Tasks :
     /\ local[t].forceRefresh
     /\ local[t].requestId # 0
     /\ pc[t] = "done"
     /\ local[t].walked

\* a storage function is called: its get is pending
StorageCall(fn, key, p, id) ==
  [NoCall EXCEPT !.fn = fn, !.key = key, !.p = p, !.id = id, !.phase = "read"]

\* ----------------------------------------------------- the command handlers
Toast(style, title) == [style |-> style, title |-> title]

CursorInstalled == cursorInstalled = << TRUE >>

walkFrame == << fs, args, stack, foundProjects, calls, recencySeen >>

cacheFrame == << now, store, projects, local, result, written, cacheId, removedBy, ticks >>

\* a handler can be started: none is running
CanStart(t, cmd) ==
  /\ command = cmd
  /\ pc[t] \in {"idle", "done"}

Started(kind, p) ==
  [NoAction EXCEPT !.kind = kind, !.p = p, !.storeAtStart = << store >>]

\* the handler returns
End(a) == [a EXCEPT !.ended = TRUE]

\* cursor.ts:9-28 with part_006:44-54: checkCursor sets the state once
CheckCursor(installed) ==
  /\ cursorInstalled = <<>>
  /\ cursorInstalled' = << installed >>
  /\ UNCHANGED << walkFrame, cacheFrame, pc, call, command, toasts, effects, action >>

\* the guard every handler starts with: if (!cursorInstalled) { showToast; return }
StartOrRefuse(t, a, first) ==
  /\ call' = NoCalls
  /\ effects' = {}
  /\ IF CursorInstalled
     THEN /\ action' = a
          /\ toasts' = <<>>
          /\ pc' = [pc EXCEPT ![t] = first]
     ELSE /\ action' = End(a)
          /\ toasts' = << Toast("Failure", "Cursor not installed") >>
          /\ pc' = [pc EXCEPT ![t] = "idle"]
  /\ UNCHANGED << walkFrame, cacheFrame, command, cursorInstalled >>

\* part_006:95-106
HandleOpenProject(t, project) ==
  /\ CanStart(t, "open-project")
  /\ StartOrRefuse(t, Started("open-project", << project >>), "openInCursor")

\* part_006:118-125: the flag is the one of the list item the action was taken on
HandleToggleFavorite(t, project) ==
  /\ CanStart(t, "open-project")
  /\ action' = Started("toggle-favorite", << project >>)
  /\ toasts' = <<>>
  /\ effects' = {}
  /\ pc' = [pc EXCEPT ![t] = "awaitStorage"]
  /\ IF project.isFavorite
     THEN call' = [NoCalls EXCEPT ![t] =
                     [NoCall EXCEPT !.fn = "removeFavorite", !.key = FAVORITES_KEY,
                                    !.id = project.id, !.phase = "read"]]
     ELSE call' = [NoCalls EXCEPT ![t] =
                     [NoCall EXCEPT !.fn = "addFavorite", !.key = FAVORITES_KEY,
                                    !.p = << project >>, !.id = project.id,
                                    !.phase = "read"]]
  /\ UNCHANGED << walkFrame, cacheFrame, command, cursorInstalled >>

\* clone-repo.tsx:62-79
HandleQuickClone(t, repo) ==
  /\ CanStart(t, "clone-repo")
  /\ StartOrRefuse(t, Started("quick-clone", << repo >>), "getRepositoryPath")

\* clone-repo.tsx:214-243
HandleCloneSubmit(t, repo) ==
  /\ CanStart(t, "clone-repo")
  /\ StartOrRefuse(t, Started("clone-with-options", << repo >>), "cloneMkdir")

\* create-project.tsx:111: !values.projectName || values.projectName.trim().length === 0
ProjectNameMissing(projectName) == projectName = <<>> \/ Len(trim(projectName)) = 0

\* create-project.tsx:101-120
HandleCreateSubmit(t, projectName) ==
  /\ CanStart(t, "create-project")
  /\ call' = NoCalls
  /\ effects' = {}
  /\ LET a == [Started("create-project", <<>>) EXCEPT !.name = projectName]
     IN IF ~CursorInstalled
        THEN /\ action' = End(a)
             /\ toasts' = << Toast("Failure", "Cursor not installed") >>
             /\ pc' = [pc EXCEPT ![t] = "idle"]
        ELSE IF ProjectNameMissing(projectName)
        THEN /\ action' = End(a)
             /\ toasts' = << Toast("Failure", "Project name required") >>
             /\ pc' = [pc EXCEPT ![t] = "idle"]
        ELSE /\ action' = a
             /\ toasts' = <<>>
             /\ pc' = [pc EXCEPT ![t] = "createAccess"]
  /\ UNCHANGED << walkFrame, cacheFrame, command, cursorInstalled >>

\* one step of a handler that touches neither the stores nor the walker
HandlerStep(t, label, a, shown, done) ==
  /\ pc' = [pc EXCEPT ![t] = label]
  /\ action' = a
  /\ toasts' = toasts \o shown
  /\ effects' = effects \cup done
  /\ UNCHANGED << walkFrame, cacheFrame, call, command, cursorInstalled >>

\* the catch block of the handler: a notification, then finally
HandlerCatch(t, a, shown, done, title) ==
  HandlerStep(t, "idle", End(a), shown \o << Toast("Failure", title) >>, done)

CatchTitle(kind) ==
  CASE kind = "open-project" -> "Failed to open project"
    [] kind = "toggle-favorite" -> "Failed to update favorites"
    [] kind = "quick-clone" -> "Clone failed"
    [] kind = "clone-with-options" -> "Clone failed"
    [] kind = "create-project" -> "Failed to create project"
    [] kind = "connect" -> "Failed to connect"

\* git-clone.ts:136-145 and clone-repo.tsx:79-81
GetRepositoryPath(t, exists) ==
  /\ pc[t] = "getRepositoryPath"
  /\ IF exists
     THEN HandlerStep(t, "openInCursor", [action EXCEPT !.existing = TRUE], <<>>, {})
     ELSE HandlerStep(t, "cloneMkdir", action, <<>>, {})

\* git-clone.ts:76-94 and 114-122: mkdir, then the progress notification
CloneMkdir(t, ok) ==
  /\ pc[t] = "cloneMkdir"
  /\ IF ok
     THEN HandlerStep(t, "gitClone", action, << Toast("Animated", "Cloning repository") >>,
                      {"mkdir"})
     ELSE HandlerCatch(t, [action EXCEPT !.failed = "cloneRepository"],
                       << Toast("Failure", "Clone failed") >>, {}, CatchTitle(action.kind))

\* git-clone.ts:97-122
GitClone(t, ok) ==
  /\ pc[t] = "gitClone"
  /\ IF ok
     THEN HandlerStep(t, "openInCursor", action,
                      << Toast("Success", "Repository cloned") >>, {"git clone"})
     ELSE HandlerCatch(t, [action EXCEPT !.failed = "cloneRepository"],
                       << Toast("Failure", "Clone failed") >>, {"git clone"},
                       CatchTitle(action.kind))

\* what the existence check of createProject came to
AccessEffect(outcome) ==
  CASE outcome = "exists" -> "access resolves"
    [] outcome = "ENOENT" -> "access ENOENT"
    [] OTHER -> "access EACCES"

\* createProject going on after every rejected access
CreateAccessProceedsOnAnyError(outcome) == outcome # "exists"

\* project-creator.ts:78-86: only a rejection with code ENOENT is not rethrown
CreateAccessProceeds(outcome) == outcome = "ENOENT"

\* project-creator.ts:77-87: access resolves (the path exists), or rejects
\* with ENOENT or with another code
CreateAccess(t, outcome) ==
  /\ pc[t] = "createAccess"
  /\ IF CreateAccessProceeds(outcome)
     THEN HandlerStep(t, "createMkdir", action, <<>>, { AccessEffect(outcome) })
     ELSE HandlerCatch(t, [action EXCEPT !.failed = "createProject"], <<>>,
                       { AccessEffect(outcome) }, CatchTitle(action.kind))

\* project-creator.ts:90
CreateMkdir(t, ok) ==
  /\ pc[t] = "createMkdir"
  /\ IF ok
     THEN HandlerStep(t, "createGitInit", action, <<>>, {"mkdir"})
     ELSE HandlerCatch(t, [action EXCEPT !.failed = "createProject"], <<>>, {},
                       CatchTitle(action.kind))

\* project-creator.ts:93-98: a failing git init is ignored
CreateGitInit(t, ok) ==
  /\ pc[t] = "createGitInit"
  /\ HandlerStep(t, "createReadme", action, <<>>,
                 { IF ok THEN "git init" ELSE "git init failed" })

\* project-creator.ts:101-102
CreateReadme(t, ok) ==
  /\ pc[t] = "createReadme"
  /\ IF ok
     THEN HandlerStep(t, "createGitignore", action, <<>>, {"writeFile README.md"})
     ELSE HandlerCatch(t, [action EXCEPT !.failed = "createProject"], <<>>, {},
                       CatchTitle(action.kind))

\* project-creator.ts:105-108 and create-project.tsx:130-134
CreateGitignore(t, ok) ==
  /\ pc[t] = "createGitignore"
  /\ IF ok
     THEN HandlerStep(t, "openInCursor", action,
                      << Toast("Success", "Project created") >>, {"writeFile .gitignore"})
     ELSE HandlerCatch(t, [action EXCEPT !.failed = "createProject"], <<>>, {},
                       CatchTitle(action.kind))

\* cursor.ts:31-59: the cursor command
OpenInCursor(t, ok) ==
  /\ pc[t] = "openInCursor"
  /\ IF ok
     THEN HandlerStep(t, "addToHistory", [action EXCEPT !.launched = TRUE],
                      << Toast("Success", "Opening in Cursor") >>, {"exec cursor"})
     ELSE HandlerStep(t, "openInCursorAlt", action, <<>>, {"exec cursor"})

\* openInCursor that does not rethrow when the alternative fails too
OpenInCursorSwallows(altOk) == FALSE

\* cursor.ts:85-92: throw altError
OpenInCursorRejects(altOk) == ~altOk

\* cursor.ts:60-92: the alternative command
OpenInCursorAlt(t, ok) ==
  /\ pc[t] = "openInCursorAlt"
  /\ IF ok
     THEN HandlerStep(t, "addToHistory", [action EXCEPT !.launched = TRUE],
                      << Toast("Success", "Opening in Cursor") >>, {"exec alternative"})
     ELSE IF OpenInCursorRejects(ok)
     THEN HandlerCatch(t, [action EXCEPT !.failed = "openInCursor"],
                       << Toast("Failure", "Failed to open in Cursor") >>,
                       {"exec alternative"}, CatchTitle(action.kind))
     ELSE HandlerStep(t, "addToHistory", action,
                      << Toast("Failure", "Failed to open in Cursor") >>,
                      {"exec alternative"})

\* the path the editor was opened on is the id of the history entry
OpenedPath == MAX_HISTORY_ITEMS + 1

\* part_006:107, clone-repo.tsx:82-89 and 109-117 and 247-255,
\* create-project.tsx:140-146: the entry handed to addToHistory
HistoryEntry(a) ==
  CASE a.kind = "open-project" -> a.p[1]
    [] a.kind \in {"quick-clone", "clone-with-options"} ->
         IF a.existing
         THEN [id |-> OpenedPath, name |-> a.p[1].name, path |-> OpenedPath,
               type |-> "remote", gitRemote |-> a.p[1].url]
         ELSE [id |-> OpenedPath, name |-> a.p[1].name, path |-> OpenedPath,
               type |-> "remote", gitRemote |-> a.p[1].url, clonedAt |-> [date |-> now]]
    [] a.kind = "create-project" ->
         [id |-> OpenedPath, name |-> trim(a.name), path |-> OpenedPath, type |-> "local"]
    [] a.kind = "connect" -> a.p[1]

\* await addToHistory(project), await addToSSHHistory(host)
HandlerAddToHistory(t) ==
  /\ pc[t] = "addToHistory"
  /\ pc' = [pc EXCEPT ![t] = "awaitStorage"]
  /\ call' = [call EXCEPT ![t] =
                IF action.kind = "connect"
                THEN StorageCall("addToSSHHistory", SSH_HISTORY_KEY,
                                 << HistoryEntry(action) >>, HistoryEntry(action).id)
                ELSE StorageCall("addToHistory", HISTORY_KEY,
                                 << HistoryEntry(action) >>, HistoryEntry(action).id)]
  /\ UNCHANGED << walkFrame, cacheFrame, command, uiVars >>

\* part_006:108 and 125: await loadData()
HandlerLoadData(t) ==
  /\ pc[t] = "awaitStorage"
  /\ call[t].phase \in {"returned", "rejected"}
  /\ action.kind \in {"open-project", "toggle-favorite"}
  /\ IF call[t].phase = "rejected"
     THEN HandlerCatch(t, [action EXCEPT !.failed = call[t].fn], <<>>, {},
                       CatchTitle(action.kind))
     ELSE /\ \E p \in PreferenceChoices :
                local' = [local EXCEPT ![t] = [NoLocals EXCEPT !.preferences = p,
                                                              !.requestId = cacheId]]
          /\ pc' = [pc EXCEPT ![t] = "getCachedProjects"]
          /\ stack' = [stack EXCEPT ![t] = <<>>]
          /\ foundProjects' = [foundProjects EXCEPT ![t] = <<>>]
          /\ calls' = [calls EXCEPT ![t] = <<>>]
          /\ recencySeen' = [recencySeen EXCEPT ![t] = {}]
          /\ result' = [result EXCEPT ![t] = <<>>]
          /\ action' = End(action)
          /\ UNCHANGED << fs, args, now, store, projects, written, cacheId, removedBy,
                          ticks, call, command, toasts, effects, cursorInstalled >>

\* clone-repo.tsx:90-95 (the success notification), 117, 257,
\* create-project.tsx:148 (pop), part_007:122 (the reload of the host lists):
\* the handler returns
HandlerReturn(t) ==
  /\ pc[t] = "awaitStorage"
  /\ call[t].phase \in {"returned", "rejected"}
  /\ action.kind \in {"quick-clone", "clone-with-options", "create-project", "connect"}
  /\ IF call[t].phase = "rejected"
     THEN HandlerCatch(t, [action EXCEPT !.failed = call[t].fn], <<>>, {},
                       CatchTitle(action.kind))
     ELSE HandlerStep(t, "idle", End(action),
                      IF action.kind = "quick-clone" /\ action.existing
                      THEN << Toast("Success", "Opened existing repository") >> ELSE <<>>,
                      {})

\* --------------------------------------------- the connect-ssh command
HostName == <<"h">>

\* part_007:412-418 (no user): `${values.host}:${port}` when port is truthy
HostId(host, port) == IF port # <<>> /\ port[1] # 0 THEN << host, port[1] >> ELSE << host >>

\* a host of the list, as loadData merged it from the stores (part_007:58-97)
ListedHost(port) ==
  LET id == HostId(HostName, port)
      base == [id |-> id, host |-> HostName, isFavorite |-> isSSHFavorite(id)]
      withPort == IF port # <<>> THEN Spread(base, "port", port[1]) ELSE base
      index == findIndex(getSSHHistory, id)
  IN IF index >= 1 THEN Spread(withPort, "lastAccessed", getSSHHistory[index].lastAccessed)
     ELSE withPort

ListedPorts == { <<>>, << 22 >> }

\* part_007:109-121
HandleConnect(t, host) ==
  /\ CanStart(t, "connect-ssh")
  /\ StartOrRefuse(t, Started("connect", << host >>), "openInCursor")

\* part_007:132-151: the stored membership decides
HandleSSHToggleFavorite(t, host) ==
  /\ CanStart(t, "connect-ssh")
  /\ action' = Started("ssh-toggle-favorite", << host >>)
  /\ toasts' = <<>>
  /\ effects' = {}
  /\ pc' = [pc EXCEPT ![t] = "editCalls"]
  /\ IF isSSHFavorite(host.id)
     THEN call' = [NoCalls EXCEPT ![t] =
                     [NoCall EXCEPT !.fn = "removeSSHFavorite", !.key = SSH_FAVORITES_KEY,
                                    !.id = host.id, !.phase = "read"]]
     ELSE call' = [NoCalls EXCEPT ![t] =
                     [NoCall EXCEPT !.fn = "addSSHFavorite", !.key = SSH_FAVORITES_KEY,
                                    !.p = << host >>, !.id = host.id, !.phase = "read"]]
  /\ UNCHANGED << walkFrame, cacheFrame, command, cursorInstalled >>

\* part_007:406: values.port ? parseInt(values.port, 10) : undefined
FormPort(port) == IF port = <<>> THEN <<>> ELSE parseInt(port)

\* part_007:407: values.port && isNaN(port)
PortInvalid(port) == port # <<>> /\ parseInt(port) = <<>>

\* part_007:411-425
UpdatedHost(host, values) ==
  LET port == FormPort(values.port)
      base == [id |-> HostId(HostName, port), host |-> HostName,
               isFavorite |-> values.isFavorite]
      withPort == IF port # <<>> THEN Spread(base, "port", port[1]) ELSE base
  IN IF "lastAccessed" \in DOMAIN host
     THEN Spread(withPort, "lastAccessed", host.lastAccessed)
     ELSE withPort

\* part_007:186-225: the storage calls of handleEditHost, in order
EditScript(oldHost, updatedHost, wasInHistory) ==
  LET changed == idChanged(oldHost, updatedHost)
      removeOld ==
        IF changed
        THEN (IF oldHost.isFavorite
              THEN << StorageCall("removeSSHFavorite", SSH_FAVORITES_KEY, <<>>, oldHost.id) >>
              ELSE <<>>)
             \o (IF wasInHistory
                 THEN << StorageCall("removeFromSSHHistory", SSH_HISTORY_KEY, <<>>, oldHost.id) >>
                 ELSE <<>>)
        ELSE <<>>
      favorite ==
        IF oldHost.isFavorite
        THEN IF changed
             THEN << StorageCall("addSSHFavorite", SSH_FAVORITES_KEY, << updatedHost >>,
                                 updatedHost.id) >>
             ELSE << StorageCall("updateSSHFavorite", SSH_FAVORITES_KEY, << updatedHost >>,
                                 oldHost.id) >>
        ELSE IF updatedHost.isFavorite
             THEN << StorageCall("addSSHFavorite", SSH_FAVORITES_KEY, << updatedHost >>,
                                 updatedHost.id) >>
             ELSE <<>>
      unchecked ==
        IF ~updatedHost.isFavorite /\ oldHost.isFavorite
        THEN << StorageCall("removeSSHFavorite", SSH_FAVORITES_KEY, <<>>,
                            IF changed THEN oldHost.id ELSE updatedHost.id) >>
        ELSE <<>>
      history ==
        IF wasInHistory
        THEN IF changed
             THEN << StorageCall("addToSSHHistory", SSH_HISTORY_KEY, << updatedHost >>,
                                 updatedHost.id) >>
             ELSE << StorageCall("updateSSHHistory", SSH_HISTORY_KEY, << updatedHost >>,
                                 oldHost.id) >>
        ELSE IF "lastAccessed" \in DOMAIN updatedHost
             THEN << StorageCall("addToSSHHistory", SSH_HISTORY_KEY, << updatedHost >>,
                                 updatedHost.id) >>
             ELSE <<>>
  IN removeOld \o favorite \o unchecked \o history

\* part_007:397-434 with 184-188: the form is submitted; an invalid port throws
\* into the catch block of the form, which shows nothing
HandleEditSubmit(t, host, values) ==
  /\ CanStart(t, "connect-ssh")
  /\ call' = NoCalls
  /\ effects' = {}
  /\ toasts' = <<>>
  /\ LET a == [Started("edit-host", <<>>) EXCEPT !.old = << host >>, !.port = values.port]
     IN IF PortInvalid(values.port)
        THEN /\ action' = End([a EXCEPT !.failed = "port"])
             /\ pc' = [pc EXCEPT ![t] = "idle"]
        ELSE /\ action' = [a EXCEPT !.p = << UpdatedHost(host, values) >>,
                                    !.script = EditScript(host, UpdatedHost(host, values),
                                                          some(getSSHHistory, host.id))]
             /\ pc' = [pc EXCEPT ![t] = "editCalls"]
  /\ UNCHANGED << walkFrame, cacheFrame, command, cursorInstalled >>

\* the next storage call of handleEditHost is awaited
EditNextCall(t) ==
  /\ pc[t] = "editCalls"
  /\ call[t].phase \in {"none", "returned"}
  /\ action.script # <<>>
  /\ call' = [call EXCEPT ![t] = Head(action.script)]
  /\ action' = [action EXCEPT !.script = Tail(@)]
  /\ UNCHANGED << walkFrame, cacheFrame, pc, command, toasts, effects, cursorInstalled >>

\* part_007:152-161 and 227-245: the lists are reloaded and the handler ends
\* with its notification
EditDone(t) ==
  /\ pc[t] = "editCalls"
  /\ call[t].phase \in {"none", "returned", "rejected"}
  /\ action.script = <<>> \/ call[t].phase = "rejected"
  /\ IF call[t].phase = "rejected"
     THEN HandlerCatch(t, [action EXCEPT !.failed = call[t].fn], <<>>, {},
                       IF action.kind = "edit-host" THEN "Failed to update host"
                       ELSE "Failed to update favorites")
     ELSE HandlerStep(t, "idle", End(action),
                      << Toast("Success",
                               IF action.kind = "edit-host" THEN "Host updated"
                               ELSE IF call[t].fn = "addSSHFavorite"
                               THEN "Added to favorites" ELSE "Removed from favorites") >>,
                      {})

\* ------------------------------------------------ the commands' actions run
\* the slots of the open-project command hold text that is not JSON, under a
\* timestamp that is not expired
CorruptStore ==
  [EmptyStore EXCEPT ![FAVORITES_KEY] = << CorruptJson >>,
                     ![HISTORY_KEY] = << CorruptJson >>,
                     ![CACHE_KEY] = << CorruptJson >>,
                     ![CACHE_TIMESTAMP_KEY] = << NumberToString(1) >>]

Commands == { "open-project", "clone-repo", "create-project", "connect-ssh" }

\* an item of the project list, flagged as loadData merged it (part_006:71-83)
ListedProject(id) == Spread(Project(id), "isFavorite", isFavorite(id))

Repository == [url |-> "u", name |-> "r", provider |-> "github"]

ProjectNames == { <<>>, <<" ">>, <<"n">> }

FormPorts == { <<>>, <<"x">>, <<"2", "2">>, <<"2", "3">> }

InitActions ==
  /\ fs = ContainerFs
  /\ args = [t \in Tasks |-> [maxDepth |-> 0, excludedFolders |-> <<>>]]
  /\ pc = [t \in Tasks |-> "idle"]
  /\ stack = Idle
  /\ foundProjects = Idle
  /\ calls = Idle
  /\ recencySeen = [t \in Tasks |-> {}]
  /\ now = 1
  /\ command \in Commands
  /\ store \in { EmptyStore, CorruptStore }
  /\ command = "connect-ssh" => store = EmptyStore
  /\ projects = <<>>
  /\ local = [t \in Tasks |-> NoLocals]
  /\ result = Idle
  /\ written = <<>>
  /\ cacheId = 0
  /\ removedBy = {}
  /\ ticks = 0
  /\ call = NoCalls
  /\ toasts = <<>>
  /\ effects = {}
  /\ cursorInstalled = <<>>
  /\ action = NoAction

NextActions ==
  \/ \E installed \in BOOLEAN : CheckCursor(installed)
  \/ HandleOpenProject("t1", ListedProject(1))
  \/ HandleToggleFavorite("t1", ListedProject(1))
  \/ HandleQuickClone("t1", Repository)
  \/ HandleCloneSubmit("t1", Repository)
  \/ \E projectName \in ProjectNames : HandleCreateSubmit("t1", projectName)
  \/ \E port \in ListedPorts : HandleConnect("t1", ListedHost(port))
  \/ \E port \in ListedPorts : HandleSSHToggleFavorite("t1", ListedHost(port))
  \/ \E port \in ListedPorts, formPort \in FormPorts, checked \in BOOLEAN :
        HandleEditSubmit("t1", ListedHost(port), [port |-> formPort, isFavorite |-> checked])
  \/ EditNextCall("t1")
  \/ EditDone("t1")
  \/ \E exists \in BOOLEAN : GetRepositoryPath("t1", exists)
  \/ \E ok \in BOOLEAN : CloneMkdir("t1", ok)
  \/ \E ok \in BOOLEAN : GitClone("t1", ok)
  \/ \E outcome \in {"exists", "ENOENT", "EACCES"} : CreateAccess("t1", outcome)
  \/ \E ok \in BOOLEAN : CreateMkdir("t1", ok)
  \/ \E ok \in BOOLEAN : CreateGitInit("t1", ok)
  \/ \E ok \in BOOLEAN : CreateReadme("t1", ok)
  \/ \E ok \in BOOLEAN : CreateGitignore("t1", ok)
  \/ \E ok \in BOOLEAN : OpenInCursor("t1", ok)
  \/ \E ok \in BOOLEAN : OpenInCursorAlt("t1", ok)
  \/ HandlerAddToHistory("t1")
  \/ HandlerLoadData("t1")
  \/ HandlerReturn("t1")
  \/ GetItem("t1")
  \/ SetItem("t1")
  \/ GetCachedTimestamp("t1")
  \/ GetCachedJson("t1")
  \/ ScanNextDirectory("t1")
  \/ ScanDirectorySkip("t1")
  \/ ScanDirectoryEmit("t1")
  \/ ScanDirectoryDescend("t1")
  \/ ScanDirectoryLoop("t1")
  \/ ScanDirectoryLoopEnd("t1")
  \/ SetCachedRecord("t1")
  \/ SetCachedTimestamp("t1")
  \/ SetProjects("t1")

SpecActions == InitActions /\ [][NextActions]_vars

\* ------------------------------------------- favorites and history claims
Ids(list) == { list[i].id : i \in 1..Len(list) }

UniqueIds(list) == \A i, j \in 1..Len(list) : list[i].id = list[j].id => i = j

HistoryKeys == { HISTORY_KEY, SSH_HISTORY_KEY }

ListKeys == { FAVORITES_KEY, HISTORY_KEY, SSH_FAVORITES_KEY, SSH_HISTORY_KEY }

AddsToHistory(c) == c.fn \in { "addToHistory", "addToSSHHistory" }

\* task t's setItem takes effect in this step
SetItemStep(t) == call[t].phase = "write" /\ call'[t].phase = "returned"

\* task t's get resolves in this step
GetItemStep(t) == call[t].phase = "read" /\ call'[t].phase # "read"

\* C11: addToHistory(p) on a stored history H writes p stamped with the
\* time at which its continuation ran at index 0, then the entries of H with another id in their
\* order, cut to 50 entries: the id occurs once, and a 51st different id
\* evicts the entry added first. The same for addToSSHHistory.
C11_AddToHistoryWrites ==
  [][ \A t \in Tasks :
        (SetItemStep(t) /\ AddsToHistory(call[t])) =>
          LET H == call[t].list
              p == call[t].p[1]
              rest == SelectSeq(H, LAMBDA e : e.id # p.id)
              W == ListIn(store', call[t].key)
          IN /\ Len(W) = (IF Len(rest) + 1 > 50 THEN 50 ELSE Len(rest) + 1)
             /\ W[1].id = p.id
             /\ W[1].lastAccessed = [iso |-> call[t].date]
             /\ call[t].date <= now
             /\ \A f \in DOMAIN p : W[1][f] = p[f]
             /\ \A i \in 2..Len(W) : W[i] = rest[i - 1]
             /\ Cardinality({ i \in 1..Len(W) : W[i].id = p.id }) = 1
             /\ (Len(H) = 50 /\ p.id \notin Ids(H)) => H[50].id \notin Ids(W)
    ]_vars

\* a second addition of id 51 to the full history: one entry, at the front,
\* with the later time, and the entry added first (id 1) is gone
C11_Witness ==
  /\ call["t1"].phase = "returned" /\ call["t1"].fn = "addToHistory"
  /\ Len(getHistory) = 50
  /\ getHistory[1].id = 51 /\ getHistory[1].lastAccessed = [iso |-> 2]
  /\ 1 \notin Ids(getHistory)
  /\ getHistory[50].id = 2

C13_FavoritesAddRemove ==
  [][ LET c == call["t1"]
          after == ListIn(store', FAVORITES_KEY)
      IN /\ (GetItemStep("t1") /\ c.fn = "addFavorite" /\ some(getFavorites, c.id)) =>
              /\ call'["t1"].phase = "returned"
              /\ after = getFavorites
         /\ (c.phase # "returned" /\ call'["t1"].phase = "returned"
             /\ c.fn = "addFavorite") => some(after, c.id)
         /\ (c.phase # "returned" /\ call'["t1"].phase = "returned"
             /\ c.fn = "removeFavorite") => ~some(after, c.id)
         /\ (SetItemStep("t1") /\ c.fn = "removeFavorite" /\ ~some(c.list, c.id)) =>
              after = c.list
    ]_vars

\* addFavorite of id 51 returned without writing: two favorites, 1 before 51
C13_Witness ==
  /\ call["t1"].phase = "returned" /\ call["t1"].fn = "addFavorite"
  /\ call["t1"].id = 51 /\ call["t1"].raced = FALSE
  /\ Len(getFavorites) = 2
  /\ getFavorites[1].id = 1 /\ getFavorites[2].id = 51

\* C14: the read-modify-write of addToHistory is not atomic. An addToHistory(q)
\* whose get returned a history led by another id p (it ran after the
\* addToHistory(p)) writes a history holding both ids; two invocations that
\* both read before either wrote can end with one id lost (C14_Witness).
C14_SequentialAddsKeepBoth ==
  [][ \A t \in Tasks :
        (SetItemStep(t) /\ call[t].fn = "addToHistory" /\ call[t].list # <<>>
         /\ call[t].list[1].id # call[t].id) =>
          /\ call[t].list[1].id \in Ids(ListIn(store', HISTORY_KEY))
          /\ call[t].id \in Ids(ListIn(store', HISTORY_KEY))
    ]_vars

\* both addToHistory invocations have returned, the second one read before the
\* first one wrote, and the id of the first is not in the stored history
C14_Witness ==
  /\ call["t1"].phase = "returned" /\ call["t1"].fn = "addToHistory"
  /\ call["t2"].phase = "returned" /\ call["t2"].fn = "addToHistory"
  /\ call["t1"].id # call["t2"].id
  /\ call["t2"].raced
  /\ call["t2"].id \in Ids(getHistory)
  /\ call["t1"].id \notin Ids(getHistory)

\* ------------------------------------------------------ error-handling claims
CorruptSlot(key) == store[key] = << CorruptJson >>

HistoryKinds == { "open-project", "quick-clone", "clone-with-options", "create-project" }

\* C15: a slot whose JSON cannot be parsed reads as empty and nothing raises:
\* the get of a storage function on such a slot returns [], the function is
\* not rejected, addToHistory and addFavorite then write the new entry alone,
\* and getCachedProjects on such a cache record returns none, so that
\* scanProjects walks the filesystem.
C15_CorruptJsonReadsAsEmpty ==
  [][ /\ (GetItemStep("t1") /\ CorruptSlot(call["t1"].key)) =>
           /\ call'["t1"].phase # "rejected"
           /\ call'["t1"].list = <<>>
           /\ call["t1"].fn \in { "addToHistory", "addFavorite" } =>
                 /\ call'["t1"].phase = "write"
                 /\ Len(call'["t1"].wrote[1]) = 1
                 /\ call'["t1"].wrote[1][1].id = call["t1"].id
      /\ (SetItemStep("t1") /\ CorruptSlot(call["t1"].key)
            /\ call["t1"].fn \in { "addToHistory", "addFavorite" }) =>
           /\ Len(ListIn(store', call["t1"].key)) = 1
           /\ ListIn(store', call["t1"].key)[1].id = call["t1"].id
      /\ (pc["t1"] = "getCacheJson" /\ pc'["t1"] # "getCacheJson" /\ CorruptSlot(CACHE_KEY)) =>
           /\ pc'["t1"] = "scanDirectories"
           /\ local'["t1"].walked
           /\ result'["t1"] = result["t1"]
      /\ (CorruptSlot(FAVORITES_KEY) => getFavorites = <<>>)
      /\ (CorruptSlot(HISTORY_KEY) => getHistory = <<>>) ]_vars

\* open-project was run on the corrupt store: the history holds the opened
\* project alone and the reload walked the filesystem
C15_Witness ==
  /\ action.kind = "open-project"
  /\ action.storeAtStart = << CorruptStore >>
  /\ Len(getHistory) = 1
  /\ getHistory[1].id = 1
  /\ local["t1"].cacheJson = << CorruptJson >>
  /\ local["t1"].walked
  /\ pc["t1"] = "done"
  /\ Len(projects) > 0

\* C16: in the four actions that record history, addToHistory is called only
\* after openInCursor resolved, and an action that failed in cloneRepository,
\* createProject or openInCursor has ended without a storage call and with the
\* stored history it started on.
C16_HistoryOnlyAfterLaunch ==
  action.kind \in HistoryKinds =>
    /\ call["t1"].phase # "none" => (call["t1"].fn = "addToHistory" /\ action.launched)
    /\ pc["t1"] \in { "addToHistory", "awaitStorage" } => action.launched
    /\ action.failed \in { "cloneRepository", "createProject", "openInCursor" } =>
         /\ action.ended
         /\ ~action.launched
         /\ call["t1"].phase = "none"
         /\ store[HISTORY_KEY] = action.storeAtStart[1][HISTORY_KEY]

\* a quick clone of an already cloned repository whose editor launch failed
\* twice, on a history that holds an earlier entry
C16_Witness ==
  /\ action.kind = "quick-clone"
  /\ action.existing
  /\ action.failed = "openInCursor"
  /\ action.ended
  /\ Len(getHistory) = 1
  /\ "exec alternative" \in effects

\* the handler ended on a validation error
ValidationFailed ==
  /\ action.ended
  /\ \/ action.kind = "create-project" /\ ProjectNameMissing(action.name)
     \/ action.kind = "edit-host" /\ PortInvalid(action.port)

FailureShown == \E i \in 1..Len(toasts) : toasts[i].style = "Failure"

\* C17: a create-project form with an empty or blank name, and an edit form of
\* an SSH host with a port that is not a number, each end with a failure
\* notification and without a filesystem write, a process launch or a
\* storage write.
C17_ValidationErrorsNotified ==
  ValidationFailed =>
    /\ FailureShown
    /\ effects = {}
    /\ call["t1"].phase = "none"
    /\ store = action.storeAtStart[1]

\* C17, the part that holds: neither form touches the filesystem, a process
\* or the stores, and the create-project form shows a failure notification
C17_ValidationBeforeIO ==
  ValidationFailed =>
    /\ effects = {}
    /\ call["t1"].phase = "none"
    /\ store = action.storeAtStart[1]
    /\ action.kind = "create-project" => FailureShown

\* ------------------------------------------------------- scan-depth claims
\* the scan depth setting of a loadData call that walked, as parseInt reads it
ConfiguredDepth(t) == parseInt(local[t].preferences.scanDepth)

\* C18: scanProjects walks with maxDepth equal to the configured scan depth
\* whenever the setting parses as a non-negative integer, 0 included, and
\* with 3 only when the setting does not parse as an integer.
C18_MaxDepthIsConfiguredDepth ==
  \A t \in Tasks : local[t].walked =>
     /\ (ConfiguredDepth(t) # <<>> /\ ConfiguredDepth(t)[1] >= 0) =>
           args[t].maxDepth = ConfiguredDepth(t)[1]
     /\ ConfiguredDepth(t) = <<>> => args[t].maxDepth = 3

\* C18, the part that holds: a setting that parses as an integer other than 0
\* is the depth of the walk, and one that does not parse gives 3
C18_NonZeroDepthIsConfiguredDepth ==
  \A t \in Tasks : local[t].walked =>
     /\ (ConfiguredDepth(t) # <<>> /\ ConfiguredDepth(t)[1] # 0) =>
           args[t].maxDepth = ConfiguredDepth(t)[1]
     /\ ConfiguredDepth(t) = <<>> => args[t].maxDepth = 3

\* ------------------------------------------------ a scan over a faulty tree
NameX == <<"x">>

FaultChildren == { <<NameW, NameA>>, <<NameW, NameBN>>, <<NameW, NameC>> }

\* what a child of /w holds: nothing, package.json, an IDE folder, or a
\* package.json that cannot be accessed
ContentKinds == { "none", "marker", "vscode", "idea", "brokenMarker" }

FaultFs(K, U, B) ==
  [ dirs |-> {RootW} \cup FaultChildren
               \cup { join(d, DotVscode) : d \in { c \in FaultChildren : K[c] = "vscode" } }
               \cup { join(d, DotIdea) : d \in { c \in FaultChildren : K[c] = "idea" } },
    files |-> { join(d, PackageJson) : d \in { c \in FaultChildren : K[c] = "marker" } },
    unreadable |-> U,
    recent |-> {},
    broken |-> B \cup { join(d, PackageJson) :
                          d \in { c \in FaultChildren : K[c] = "brokenMarker" } },
    links |-> {} ]

\* a root that does not exist before /w; /w before a root inside it
FaultPreferences ==
  { [ scanDirectories |-> << << NameX >>, RootW >>, scanDepth |-> <<"1">>,
      excludedFolders |-> <<>> ],
    [ scanDirectories |-> << RootW, <<NameW, NameC>> >>, scanDepth |-> <<"2">>,
      excludedFolders |-> <<>> ] }

\* loadData was invoked on an empty store
InitFaults ==
  /\ \E K \in [FaultChildren -> ContentKinds],
        U \in SubsetsUpTo({RootW} \cup FaultChildren, MaxUnreadable),
        B \in SUBSET { <<NameW, NameB>> } :
        fs = FaultFs(K, U, B)
  /\ args = [t \in Tasks |-> [maxDepth |-> 0, excludedFolders |-> <<>>]]
  /\ pc = [t \in Tasks |-> IF t = "t1" THEN "getCachedProjects" ELSE "idle"]
  /\ stack = Idle
  /\ foundProjects = Idle
  /\ calls = Idle
  /\ recencySeen = [t \in Tasks |-> {}]
  /\ now = 1
  /\ store = EmptyStore
  /\ projects = <<>>
  /\ \E p \in FaultPreferences :
        local = [t \in Tasks |-> IF t = "t1" THEN [NoLocals EXCEPT !.preferences = p]
                                 ELSE NoLocals]
  /\ result = Idle
  /\ written = <<>>
  /\ cacheId = 0
  /\ removedBy = {}
  /\ ticks = 0
  /\ call = NoCalls
  /\ command = "open-project"
  /\ toasts = <<>>
  /\ effects = {}
  /\ cursorInstalled = <<>>
  /\ action = NoAction

NextFaults ==
  \/ GetCachedTimestamp("t1")
  \/ ScanNextDirectory("t1")
  \/ ScanDirectorySkip("t1")
  \/ ScanDirectoryEmit("t1")
  \/ ScanDirectoryDescend("t1")
  \/ ScanDirectoryLoop("t1")
  \/ ScanDirectoryLoopEnd("t1")
  \/ SetCachedRecord("t1")
  \/ SetCachedTimestamp("t1")
  \/ SetProjects("t1")

SpecFaults == InitFaults /\ [][NextFaults]_vars

\* ------------------------------------------------- claims on faulty trees
\* scanProjects has handed every root to the walker and the walks returned
ScanDone == pc["t1"] \in { "setTimestamp", "setProjects", "done" }

MarkerNames == Range(PROJECT_INDICATORS)

\* a marker name exists directly inside D and can be accessed
HoldsMarker(D) ==
  \E m \in MarkerNames : join(D, m) \in (fs.dirs \cup fs.files) \ fs.broken

\* the entries of D, accessible or not
EntriesOf(D) ==
  { q \in fs.dirs \cup fs.files \cup fs.broken : Len(q) = Len(D) + 1 /\ Parent(q) = D }

\* C19: a directory is classified as a project iff a name of the marker list
\* exists directly inside it; .vscode and .idea are not in the list, so a
\* directory holding only such a folder is not a project; a marker whose
\* existence check fails counts as absent and the walk goes on.
C19_ProjectIffMarkerInside ==
  /\ DotVscode \notin MarkerNames /\ DotIdea \notin MarkerNames
  /\ \A D \in EmittedPaths : HoldsMarker(D)
  /\ ScanDone =>
        \A c \in Visits :
           ~HasQualifyingChild(c.dirPath) => (HoldsMarker(c.dirPath) <=> c.dirPath \in EmittedPaths)

\* the walk visited a directory that holds only .vscode, one that holds only
\* a package.json whose check fails, and emitted a third one
C19_Witness ==
  /\ ScanDone
  /\ \E c1 \in Visits, c2 \in Visits :
        /\ EntriesOf(c1.dirPath) = { join(c1.dirPath, DotVscode) }
        /\ EntriesOf(c2.dirPath) = { join(c2.dirPath, PackageJson) }
        /\ join(c2.dirPath, PackageJson) \in fs.broken
        /\ c1.dirPath \notin EmittedPaths
        /\ c2.dirPath \notin EmittedPaths
  /\ EmittedPaths # {}

CalledAt(D, depth) ==
  \E c \in Range(calls["t1"]) : c.dirPath = D /\ c.currentDepth = depth

\* C20: a failing listing or stat skips only the directory or entry it
\* failed on: every configured root is handed to the walker, every child
\* directory of a listed directory that was not emitted is walked while the
\* depth allows, every qualifying directory walked is emitted, and the scan
\* reaches its end.
C20_FailuresSkipOnlyTheFailingEntry ==
  ScanDone =>
    /\ \A i \in 1..Len(local["t1"].directories) :
          CalledAt(ExpandedPath(local["t1"].directories[i]), 0)
    /\ \A c \in Visits :
          (c.dirPath \notin EmittedPaths /\ c.currentDepth < args["t1"].maxDepth) =>
             \A C \in ChildDirs(c.dirPath) : CalledAt(C, c.currentDepth + 1)
    /\ \A c \in Range(calls["t1"]) : QualifiesC1(c) => c.dirPath \in EmittedPaths

\* the first root does not exist, /w lists a broken entry and an unreadable
\* directory before bN, and bN is emitted
C20_Witness ==
  /\ ScanDone
  /\ ExpandedPath(local["t1"].directories[1]) \notin fs.dirs
  /\ <<NameW, NameB>> \in fs.broken
  /\ <<NameW, NameA>> \in fs.unreadable
  /\ <<NameW, NameBN>> \in EmittedPaths

\* ------------------------------------------ a scan over a tree with cycles
\* links that lead back to the directory that holds them or to its parent
CycleLinks ==
  { << <<NameW, NameL>>, RootW >>,
    << <<NameW, NameA, NameL>>, RootW >>,
    << <<NameW, NameBN, NameL>>, <<NameW, NameBN>> >> }

CycleMarkers ==
  { <<NameW, PackageJson>>, <<NameW, NameA, PackageJson>>, <<NameW, NameBN, PackageJson>> }

CyclePreferences ==
  { [ scanDirectories |-> << RootW >>, scanDepth |-> d, excludedFolders |-> <<>> ] :
      d \in { <<"1">>, <<"2">>, <<"x">> } }

\* loadData was invoked on an empty store, over a tree with at least one cycle
InitCycle ==
  /\ \E M \in SUBSET CycleMarkers, L \in (SUBSET CycleLinks) \ { {} } :
      \E U \in { {}, { <<NameW, NameBN>> } } :
        fs = [ dirs |-> { RootW, <<NameW, NameA>>, <<NameW, NameBN>> },
               files |-> M, unreadable |-> U, recent |-> M, broken |-> {}, links |-> L ]
  /\ args = [t \in Tasks |-> [maxDepth |-> 0, excludedFolders |-> <<>>]]
  /\ pc = [t \in Tasks |-> IF t = "t1" THEN "getCachedProjects" ELSE "idle"]
  /\ stack = Idle
  /\ foundProjects = Idle
  /\ calls = Idle
  /\ recencySeen = [t \in Tasks |-> {}]
  /\ now = 1
  /\ store = EmptyStore
  /\ projects = <<>>
  /\ \E p \in CyclePreferences :
        local = [t \in Tasks |-> IF t = "t1" THEN [NoLocals EXCEPT !.preferences = p]
                                 ELSE NoLocals]
  /\ result = Idle
  /\ written = <<>>
  /\ cacheId = 0
  /\ removedBy = {}
  /\ ticks = 0
  /\ call = NoCalls
  /\ command = "open-project"
  /\ toasts = <<>>
  /\ effects = {}
  /\ cursorInstalled = <<>>
  /\ action = NoAction

\* every continuation that is ready is run by the event loop
SpecCycle == InitCycle /\ [][NextFaults]_vars /\ WF_vars(NextFaults)

\* how often the name occurs in the path
Occurrences(path, name) == Cardinality({ i \in 1..Len(path) : path[i] = name })

\* the activations of task t are nested with depths 0, 1, 2, ... from the
\* bottom of the stack, none beyond maxDepth + 1
DepthsGrowByOne(t) ==
  \A i \in 1..Len(stack[t]) :
     /\ stack[t][i].currentDepth = Len(stack[t]) - i
     /\ stack[t][i].currentDepth <= args[t].maxDepth + 1

\* the recency scan went at most three names below the directory it was run on
RecencyWithinDepth(t) ==
  \A q \in recencySeen[t] :
     \E D \in EmittedPaths : IsBelow(q, D) /\ Len(q) <= Len(D) + 3

\* C21: every walk terminates, also over a directory reachable from itself:
\* each recursive call of the walker has the depth of its caller plus one and
\* none goes beyond maxDepth + 1, the recency scan stays within depth 2, and
\* a started scanProjects reaches its cache write and returns.
C21_WalksTerminate ==
  /\ [](DepthsGrowByOne("t1") /\ RecencyWithinDepth("t1"))
  /\ (pc["t1"] = "scanDirectories") ~> (pc["t1"] = "done" /\ store[CACHE_KEY] # <<>>)

\* the scan returned after the walker went around a cycle twice and the
\* recency scan followed a link
C21_Witness ==
  /\ pc["t1"] = "done"
  /\ \E c \in Range(calls["t1"]) : Occurrences(c.dirPath, NameL) >= 2
  /\ \E q \in recencySeen["t1"] : Occurrences(q, NameL) >= 1
  /\ foundProjects["t1"] # <<>>

\* ------------------------------------------------ a scan after a scan
\* the scanProjects of t2 started after the walking scanProjects of t1 had
\* returned, within 24h of its stamp; t2 removed nothing
FollowsWithinLifetime ==
  /\ local["t1"].walked /\ result["t1"] # <<>>
  /\ ~local["t2"].forceRefresh
  /\ local["t2"].requestId # 0
  /\ local["t2"].entryStore # <<>>
  /\ TimestampFreshAtEntry("t2")

\* what the following scan hands back for the list L of the first one
FollowingScanReturns(L) ==
  \/ pc["t2"] = "getCacheJson"
  \/ /\ result["t2"] = << L >>
     /\ ~local["t2"].walked
     /\ calls["t2"] = <<>> /\ foundProjects["t2"] = <<>>

\* project-scanner.ts:239-242: the record and the stamp are in the store when
\* the walking scan returns its list (no other call running)
WrittenBeforeReturn ==
  [][ ( /\ result["t1"] = <<>> /\ result'["t1"] # <<>>
        /\ local["t1"].walked
        /\ pc["t2"] = "idle" )
      => /\ store'[CACHE_KEY] = << JSONstringify(result'["t1"][1]) >>
         /\ store'[CACHE_TIMESTAMP_KEY] = << NumberToString(now) >> ]_vars

\* C22: a scanProjects that missed the cache and walked has written its list
\* L and the current time to the cache before it returns, and a following
\* scanProjects within 24h returns L without walking, also when L is empty.
C22_FollowingScanReturnsSameList ==
  FollowsWithinLifetime => FollowingScanReturns(result["t1"][1])

\* the part of C22 that holds: the following scan returns, unwalked, what
\* JSON.parse makes of the stored text of L
C22_FollowingScanReturnsStoredList ==
  FollowsWithinLifetime => FollowingScanReturns(JSONparse(JSONstringify(result["t1"][1])))

\* the following scan returned the empty list of a scan whose roots were all missing
C22_EmptyListIsCached ==
  /\ FollowsWithinLifetime /\ pc["t2"] = "done"
  /\ result["t1"] = << <<>> >> /\ result["t2"] = << <<>> >>
  /\ ~local["t2"].walked

\* ------------------------------- two walks of one tree with other mtimes
\* /w/a/b/c/bN/a, cut off after n directories
ChainDirs ==
  << RootW, <<NameW, NameA>>, <<NameW, NameA, NameB>>, <<NameW, NameA, NameB, NameC>>,
     <<NameW, NameA, NameB, NameC, NameBN>>, <<NameW, NameA, NameB, NameC, NameBN, NameA>> >>

TwinTrees ==
  { { ChainDirs[i] : i \in 1..n } \cup X :
      n \in 2..Len(ChainDirs), X \in { {}, { <<NameW, NameBN>> } } }

TwinMarkerDirs == { RootW, <<NameW, NameA>>, <<NameW, NameBN>> }

TwinDepths == 0..2

TwinExclusions == { <<>>, << <<" ", "n">> >> }

InitTwin ==
  /\ \E S \in TwinTrees :
       \E M \in SUBSET (TwinMarkerDirs \cap S), U \in { {}, { <<NameW, NameA, NameB>> } \cap S } :
          \E R \in SubsetsUpTo(S \cup { join(d, PackageJson) : d \in M }, 1) :
             fs = [dirs |-> S, files |-> { join(d, PackageJson) : d \in M },
                   unreadable |-> U, recent |-> R, broken |-> {}, links |-> {}]
  /\ \E d \in TwinDepths, e \in TwinExclusions :
        args = [t \in Tasks |-> [maxDepth |-> d, excludedFolders |-> e]]
  /\ pc = [t \in Tasks |-> IF t = "t1" THEN "walker" ELSE "idle"]
  /\ stack = [Idle EXCEPT !["t1"] = << Frame(RootW, 0) >>]
  /\ foundProjects = Idle
  /\ calls = Idle
  /\ recencySeen = [t \in Tasks |-> {}]
  /\ now = 1
  /\ store = EmptyStore
  /\ projects = <<>>
  /\ local = [t \in Tasks |-> NoLocals]
  /\ result = Idle
  /\ written = <<>>
  /\ cacheId = 0
  /\ removedBy = {}
  /\ ticks = 0
  /\ call = NoCalls
  /\ command = "open-project"
  /\ toasts = <<>>
  /\ effects = {}
  /\ cursorInstalled = <<>>
  /\ action = NoAction

WalkReturned(t) == pc[t] = "walker" /\ stack[t] = <<>>

\* after the first walk the modification times change (none recent, or all),
\* nothing else, and the same root is walked again with the same arguments
Touch ==
  /\ WalkReturned("t1") /\ pc["t2"] = "idle"
  /\ \E R \in { {}, fs.dirs \cup fs.files } :
        /\ R # fs.recent
        /\ fs' = [fs EXCEPT !.recent = R]
  /\ pc' = [pc EXCEPT !["t2"] = "walker"]
  /\ stack' = [stack EXCEPT !["t2"] = << Frame(RootW, 0) >>]
  /\ UNCHANGED << scanVars, args, foundProjects, calls, recencySeen >>

NextTwin ==
  \/ \E t \in Tasks : ScanDirectorySkip(t)
  \/ \E t \in Tasks : ScanDirectoryEmit(t)
  \/ \E t \in Tasks : ScanDirectoryDescend(t)
  \/ \E t \in Tasks : ScanDirectoryLoop(t)
  \/ \E t \in Tasks : ScanDirectoryLoopEnd(t)
  \/ Touch

SpecTwin == InitTwin /\ [][NextTwin]_vars

\* the entry but for its lastModified
WithoutLastModified(entry) == [entry EXCEPT !.lastModified = <<>>]

\* C23: two walks of directory structures that differ only in modification
\* times emit entries for the same paths in the same order (and make the same
\* calls); the entries differ at most in lastModified.
C23_MtimesDoNotInfluenceClassification ==
  /\ Len(foundProjects["t2"]) <= Len(foundProjects["t1"])
  /\ \A i \in 1..Len(foundProjects["t2"]) :
        WithoutLastModified(foundProjects["t2"][i]) = WithoutLastModified(foundProjects["t1"][i])
  /\ WalkReturned("t2") => /\ Len(foundProjects["t2"]) = Len(foundProjects["t1"])
                       /\ calls["t2"] = calls["t1"]

\* both walks emitted, and an entry came out with another lastModified
C23_Witness ==
  /\ WalkReturned("t1") /\ WalkReturned("t2")
  /\ foundProjects["t1"] # <<>>
  /\ \E i \in 1..Len(foundProjects["t1"]) :
        foundProjects["t1"][i].lastModified # foundProjects["t2"][i].lastModified

\* the entries below D the recency scan compares: at most three names below
\* D, no name on the way excluded, every directory on the way listable
ReachedUnder(D, excludedFolders) ==
  { q \in fs.dirs \cup fs.files :
      /\ IsBelow(q, D)
      /\ Len(q) <= Len(D) + 3
      /\ \A k \in (Len(D) + 1)..Len(q) : ~shouldExcludeFolder(q[k], excludedFolders)
      /\ \A k \in (Len(D) + 1)..(Len(q) - 1) :
            SubSeq(q, 1, k) \in fs.dirs \ fs.unreadable }

MaxMtime(S) == CHOOSE m \in { StatMtime(q) : q \in S } : \A q \in S : StatMtime(q) <= m

\* the walk of t ran on the modification times the tree has now
OnCurrentTimes(t) == t = "t1" => pc["t2"] = "idle"

\* C24: lastModified of the entry emitted for D is the greatest modification
\* time among the non-excluded entries within the recency scan's own depth 2
\* under D, whatever maxDepth is and wherever D was found, and D's own
\* modification time when there is no such entry.
C24_LastModifiedIsLatestWithinDepthTwo ==
  \A t \in Tasks :
     OnCurrentTimes(t) =>
        \A i \in 1..Len(foundProjects[t]) :
           LET D == foundProjects[t][i].path
               reached == ReachedUnder(D, args[t].excludedFolders)
           IN foundProjects[t][i].lastModified =
                 [date |-> IF reached = {} THEN StatMtime(D) ELSE MaxMtime(reached)]

\* /w/a, found at depth 1 of a walk with maxDepth 1, takes its lastModified
\* from the only recent entry, three names below it, not from the one below
C24_Witness ==
  /\ pc["t2"] = "idle" /\ WalkReturned("t1")
  /\ args["t1"].maxDepth = 1
  /\ fs.recent = { ChainDirs[5] }
  /\ ChainDirs[6] \in fs.dirs
  /\ \E i \in 1..Len(foundProjects["t1"]) :
        /\ foundProjects["t1"][i].path = ChainDirs[2]
        /\ foundProjects["t1"][i].lastModified = [date |-> 2]

\* an emitted directory with nothing but excluded entries has its own time
C24_FallbackWitness ==
  /\ pc["t2"] = "idle" /\ WalkReturned("t1")
  /\ \E i \in 1..Len(foundProjects["t1"]) :
        /\ ReachedUnder(foundProjects["t1"][i].path, args["t1"].excludedFolders) = {}
        /\ fs.recent = { foundProjects["t1"][i].path }
        /\ foundProjects["t1"][i].lastModified = [date |-> 2]

\* ------------------------------------------- containers at the depth bound
\* the activation listed a non-excluded directory that directly contains a marker
VisitedMarkerDirectory(c) ==
  /\ c \in Visits
  /\ c.currentDepth <= args["t1"].maxDepth
  /\ ~shouldExcludeFolder(basename(c.dirPath), args["t1"].excludedFolders)
  /\ ContainsMarker(c.dirPath)

EmittedAtOrBelow(D) ==
  \E e \in EmittedPaths : e = D \/ IsBelow(e, D)

\* C25: every non-excluded directory that directly contains a marker and is
\* visited at a depth k <= maxDepth is emitted or has an emitted descendant,
\* also when k = maxDepth and a child of it is a project.
C25_NoMarkerDirectoryLost ==
  WalkDone => \A c \in Range(calls["t1"]) :
                 VisitedMarkerDirectory(c) => EmittedAtOrBelow(c.dirPath)

\* the part of C25 that holds: only a container is lost, a visited marker
\* directory without a qualifying child is emitted
C25_OnlyContainersLost ==
  WalkDone => \A c \in Range(calls["t1"]) :
                 (VisitedMarkerDirectory(c) /\ ~EmittedAtOrBelow(c.dirPath))
                    => HasQualifyingChild(c.dirPath)

\* a marker directory visited at maxDepth whose child project was never visited
C25_LostAtDepthBound ==
  /\ WalkDone
  /\ \E c \in Range(calls["t1"]) :
        /\ VisitedMarkerDirectory(c) /\ c.currentDepth = args["t1"].maxDepth
        /\ HasQualifyingChild(c.dirPath)
        /\ ~EmittedAtOrBelow(c.dirPath)
        /\ \A d \in Range(calls["t1"]) : ~IsBelow(d.dirPath, c.dirPath)

\* ------------------------------------- Refresh while a scan is in flight
\* part_006:56-62: Refresh is chosen (loadData(true)) after the walk of the
\* loadData of the mount has started
RefreshDuringWalk ==
  /\ local["t1"].walked
  /\ LoadData("t2", TRUE)

NextRefresh ==
  \/ LoadData("t1", FALSE)
  \/ RefreshDuringWalk
  \/ \E t \in Tasks : ClearCacheRecord(t)
  \/ \E t \in Tasks : ClearCacheTimestamp(t)
  \/ \E t \in Tasks : GetCachedTimestamp(t)
  \/ \E t \in Tasks : GetCachedJson(t)
  \/ \E t \in Tasks : ScanNextDirectory(t)
  \/ \E t \in Tasks : ScanDirectorySkip(t)
  \/ \E t \in Tasks : ScanDirectoryEmit(t)
  \/ \E t \in Tasks : ScanDirectoryDescend(t)
  \/ \E t \in Tasks : ScanDirectoryLoop(t)
  \/ \E t \in Tasks : ScanDirectoryLoopEnd(t)
  \/ \E t \in Tasks : SetCachedRecord(t)
  \/ \E t \in Tasks : SetCachedTimestamp(t)
  \/ \E t \in Tasks : SetProjects(t)

SpecRefresh == InitScan /\ [][NextRefresh]_vars

\* C26: the list a forced refresh produces comes from a walk that started
\* after the refresh was requested, also with another scan in flight: here
\* the only walk that started earlier is that of the first call, so the
\* refresh returns the list of its own walk.
C26_RefreshReturnsWalkStartedAfterRequest ==
  (local["t2"].forceRefresh /\ Returned("t2")) => local["t2"].walked

\* the refresh cleared the cache, the scan in flight then wrote its record and
\* its stamp, and the refresh returned that record without walking
C26_StaleRefresh ==
  /\ local["t2"].forceRefresh /\ pc["t2"] = "done"
  /\ local["t2"].removed = { CACHE_KEY, CACHE_TIMESTAMP_KEY }
  /\ CacheHit("t2")
  /\ result["t2"][1] = JSONparse(JSONstringify(foundProjects["t1"]))
  /\ projects = result["t2"][1]

\* --------------------------------- the sections of the open-project list
\* part_006:155-166: the items of the section shown, "all" (the scanned list
\* with the flags loadData merged), "favorites" and "history" (the stored lists)
SectionItems(section) ==
  CASE section = "all" -> { ListedProject(1) }
    [] section = "favorites" -> Range(getFavorites)
    [] section = "history" -> Range(getHistory)

Sections == { "all", "favorites", "history" }

InitSections ==
  /\ InitActions
  /\ command = "open-project"
  /\ store = EmptyStore

NextSections ==
  \/ \E installed \in BOOLEAN : CheckCursor(installed)
  \/ HandleOpenProject("t1", ListedProject(1))
  \/ \E section \in Sections : \E project \in SectionItems(section) :
        HandleToggleFavorite("t1", project)
  \/ \E ok \in BOOLEAN : OpenInCursor("t1", ok)
  \/ \E ok \in BOOLEAN : OpenInCursorAlt("t1", ok)
  \/ HandlerAddToHistory("t1")
  \/ HandlerLoadData("t1")
  \/ GetItem("t1")
  \/ SetItem("t1")
  \/ GetCachedTimestamp("t1")
  \/ GetCachedJson("t1")
  \/ ScanNextDirectory("t1")
  \/ ScanDirectorySkip("t1")
  \/ ScanDirectoryEmit("t1")
  \/ ScanDirectoryDescend("t1")
  \/ ScanDirectoryLoop("t1")
  \/ ScanDirectoryLoopEnd("t1")
  \/ SetCachedRecord("t1")
  \/ SetCachedTimestamp("t1")
  \/ SetProjects("t1")

SpecSections == InitSections /\ [][NextSections]_vars

\* handleToggleFavorite has run to its end on the item action.p[1]
ToggleDone == action.kind = "toggle-favorite" /\ pc["t1"] = "done"

\* the id was in the stored favorites when the handler started
WasFavorite == some(ListIn(action.storeAtStart[1], FAVORITES_KEY), action.p[1].id)

\* C27: toggle-favorite flips the membership of the project's id in the stored
\* favorites, from every section of the list: a stored favorite is removed,
\* any other project is added, whatever isFavorite value its item carries.
C27_ToggleFlipsMembership ==
  ToggleDone => (isFavorite(action.p[1].id) <=> ~WasFavorite)

\* the part of C27 that holds: the membership flips whenever the flag on the
\* item says what the store says, as it does in "all" and in "favorites"
C27_ToggleFlipsWhenFlagCurrent ==
  (ToggleDone /\ (action.p[1].isFavorite <=> WasFavorite))
     => (isFavorite(action.p[1].id) <=> ~WasFavorite)

\* a history entry written before the project became a favorite was toggled:
\* its flag said false, addFavorite found the id and wrote nothing
C27_StaleFlagToggle ==
  /\ ToggleDone
  /\ action.p[1] \in Range(ListIn(action.storeAtStart[1], HISTORY_KEY))
  /\ ~action.p[1].isFavorite
  /\ WasFavorite /\ isFavorite(action.p[1].id)

\* ------------------------------------------------ the edit of an SSH host
\* handleEditHost ran all its storage calls and showed "Host updated"
EditSucceeded ==
  /\ action.kind = "edit-host" /\ action.ended
  /\ action.failed = "" /\ action.p # <<>>

\* the stores after the edit say what the form said
StoresMatchForm(oldHost, updatedHost) ==
  /\ isSSHFavorite(updatedHost.id) <=> updatedHost.isFavorite
  /\ idChanged(oldHost, updatedHost) =>
        /\ ~isSSHFavorite(oldHost.id)
        /\ ~some(getSSHHistory, oldHost.id)

\* C28: after a successful edit of an SSH host the updated id is in the SSH
\* favorites iff the favorite box was checked, and an old id that the edit
\* changed is in neither the SSH favorites nor the SSH history, for an id
\* changed or not and a host that was a favorite or not.
C28_EditMatchesCheckbox ==
  EditSucceeded => StoresMatchForm(action.old[1], action.p[1])

\* the new id was the id of no stored favorite when the edit started
NewIdWasFree ==
  idChanged(action.old[1], action.p[1]) =>
     ~some(ListIn(action.storeAtStart[1], SSH_FAVORITES_KEY), action.p[1].id)

\* the part of C28 that holds: every case but the favorite whose id changed
\* while the box was unchecked (the new id not being another favorite's)
C28_EditMatchesCheckboxUnlessFavoriteMoved ==
  (EditSucceeded /\ NewIdWasFree
                 /\ ~( /\ action.old[1].isFavorite
                       /\ idChanged(action.old[1], action.p[1])
                       /\ ~action.p[1].isFavorite ))
     => StoresMatchForm(action.old[1], action.p[1])

\* a favorite was edited to another port with the box unchecked: the new id
\* was added to the favorites and the removal named the old id
C28_UncheckedFavoriteMoved ==
  /\ EditSucceeded
  /\ action.old[1].isFavorite /\ ~action.p[1].isFavorite
  /\ idChanged(action.old[1], action.p[1]) /\ NewIdWasFree
  /\ isSSHFavorite(action.p[1].id)
  /\ ~isSSHFavorite(action.old[1].id)

\* -------------------------------------------- createProject and its target
CreateWrites ==
  { "mkdir", "git init", "git init failed", "writeFile README.md", "writeFile .gitignore" }

Launches == { "exec cursor", "exec alternative" }

\* the existence check found the path, or failed with a code other than ENOENT
TargetNotFree == effects \cap { "access resolves", "access EACCES" } # {}

\* createProject raised at the existence check and the action ended there
RaisedBeforeWriting ==
  /\ effects \cap (CreateWrites \cup Launches) = {}
  /\ action.ended /\ action.failed = "createProject" /\ ~action.launched
  /\ store = action.storeAtStart[1]
  /\ toasts = << Toast("Failure", CatchTitle("create-project")) >>

\* C29: createProject raises before mkdir, git init and the two writes when
\* the target path exists or its existence check fails with an error other
\* than not-found, and the action then launches no editor and adds no history
\* entry; nothing is written unless the check said not-found; a failing git
\* init is followed by the writes like a successful one.
C29_CreateNeverWritesIntoExistingPath ==
  /\ [](action.kind = "create-project" =>
          /\ TargetNotFree => RaisedBeforeWriting
          /\ effects \cap CreateWrites # {} => "access ENOENT" \in effects)
  /\ [][pc["t1"] = "createGitInit" =>
          (pc'["t1"] = "createReadme" /\ action' = action /\ toasts' = toasts)]_vars

\* the target existed: the action ended with its failure toast
C29_Witness ==
  /\ action.kind = "create-project"
  /\ "access resolves" \in effects
  /\ RaisedBeforeWriting

\* git init failed and the project was created and opened all the same
C29_GitInitFailedWitness ==
  /\ action.kind = "create-project"
  /\ { "git init failed", "writeFile README.md", "writeFile .gitignore" } \subseteq effects
  /\ action.launched /\ action.ended /\ action.failed = ""
  /\ some(getHistory, OpenedPath)

\* ----------------------------------------------- clone URLs and tokens
Https == <<"h","t","t","p","s",":","/","/">>

Http == <<"h","t","t","p",":","/","/">>

GitScheme == <<"g","i","t",":","/","/">>

GitAt == <<"g","i","t","@">>

GithubCom == <<"g","i","t","h","u","b",".","c","o","m">>

GitlabCom == <<"g","i","t","l","a","b",".","c","o","m">>

BitbucketOrg == <<"b","i","t","b","u","c","k","e","t",".","o","r","g">>

OtherHost == <<"e",".","c","o">>

startsWith(s, prefix) == Len(s) >= Len(prefix) /\ SubSeq(s, 1, Len(prefix)) = prefix

endsWith(s, suffix) ==
  Len(s) >= Len(suffix) /\ SubSeq(s, Len(s) - Len(suffix) + 1, Len(s)) = suffix

NoSlash(s) == \A m \in 1..Len(s) : s[m] # "/"

\* s.replace(/\.git$/, "")
WithoutDotGit(s) == IF endsWith(s, DotGit) THEN SubSeq(s, 1, Len(s) - Len(DotGit)) ELSE s

\* ([^/]+?)(?:\.git)?\/?$ on what follows the last separator: the text but for
\* one closing slash is the segment; <<the name captured>>, <<>> without a match
LastSegment(rem) ==
  LET core == IF rem # <<>> /\ rem[Len(rem)] = "/" THEN SubSeq(rem, 1, Len(rem) - 1) ELSE rem
  IN IF core # <<>> /\ NoSlash(core)
     THEN << IF Len(core) > Len(DotGit) THEN WithoutDotGit(core) ELSE core >>
     ELSE <<>>

\* ([^/]+)\/ followed by the last segment
OwnerThenName(rest) ==
  IF \E k \in 2..Len(rest) : rest[k] = "/" /\ NoSlash(SubSeq(rest, 1, k - 1))
  THEN LET k == CHOOSE k \in 2..Len(rest) : rest[k] = "/" /\ NoSlash(SubSeq(rest, 1, k - 1))
       IN LastSegment(SubSeq(rest, k + 1, Len(rest)))
  ELSE <<>>

\* git-clone.ts:13, 23, 33: url.match(/<domain>[/:]([^/]+)\/([^/]+?)(?:\.git)?\/?$/),
\* a search that is not anchored at the start; <<match[2]>> or <<>>
MatchProvider(url, domain) ==
  LET starts == { i \in 1..Len(url) :
                    /\ i + Len(domain) <= Len(url)
                    /\ SubSeq(url, i, i + Len(domain) - 1) = domain
                    /\ url[i + Len(domain)] \in { "/", ":" }
                    /\ OwnerThenName(SubSeq(url, i + Len(domain) + 1, Len(url))) # <<>> }
  IN IF starts = {} THEN <<>>
     ELSE LET i == CHOOSE i \in starts : \A j \in starts : i <= j
          IN OwnerThenName(SubSeq(url, i + Len(domain) + 1, Len(url)))

\* the segment after the last slash of the whole URL (git-clone.ts:45)
CustomName(url) ==
  LET cut == IF url # <<>> /\ url[Len(url)] = "/" THEN SubSeq(url, 1, Len(url) - 1) ELSE url
      slashes == { k \in 1..Len(cut) : cut[k] = "/" }
      from == IF slashes = {} THEN 1 ELSE (CHOOSE k \in slashes : \A j \in slashes : j <= k) + 1
      found == LastSegment(SubSeq(cut, from, Len(cut)))
  IN IF found = <<>> THEN <<"r","e","p","o","s","i","t","o","r","y">>
     ELSE WithoutDotGit(found[1])

GitRepository(url, name, provider) ==
  [ url |-> IF endsWith(url, DotGit) THEN url ELSE url \o DotGit,
    name |-> name, provider |-> provider ]

\* git-clone.ts:11-54: <<the repository>>, <<>> for null
parseGitUrl(url) ==
  IF MatchProvider(url, GithubCom) # <<>>
  THEN << GitRepository(url, WithoutDotGit(MatchProvider(url, GithubCom)[1]), "github") >>
  ELSE IF MatchProvider(url, GitlabCom) # <<>>
  THEN << GitRepository(url, WithoutDotGit(MatchProvider(url, GitlabCom)[1]), "gitlab") >>
  ELSE IF MatchProvider(url, BitbucketOrg) # <<>>
  THEN << GitRepository(url, WithoutDotGit(MatchProvider(url, BitbucketOrg)[1]), "bitbucket") >>
  ELSE IF \/ includes(url, <<"@">>) \/ startsWith(url, Http)
          \/ startsWith(url, Https) \/ startsWith(url, GitScheme)
  THEN << GitRepository(url, CustomName(url), "custom") >>
  ELSE <<>>

\* git-clone.ts:56-71: the token goes in front of the authority of an https URL
buildAuthenticatedUrl(url, token, provider) ==
  IF token = <<>> THEN url
  ELSE IF startsWith(url, Https)
  THEN LET rest == SubSeq(url, Len(Https) + 1, Len(url))
           user == CASE provider = <<"github">> -> token
                     [] provider = <<"gitlab">> -> <<"o","a","u","t","h","2",":">> \o token
                     [] provider = <<"bitbucket">> ->
                          <<"x","-","t","o","k","e","n","-","a","u","t","h",":">> \o token
                     [] OTHER -> token
       IN Https \o user \o <<"@">> \o rest
  ELSE url

\* clone-repo.tsx:49-60 and 229-236; <<>> for undefined and for a token not set
getTokenForProvider(preferences, provider) ==
  CASE provider = "github" -> preferences.githubToken
    [] provider = "gitlab" -> preferences.gitlabToken
    [] provider = "bitbucket" -> preferences.bitbucketToken
    [] OTHER -> <<>>

GithubToken == <<"G">>

GitlabToken == <<"L">>

BitbucketToken == <<"B">>

TokenPreferences ==
  [ githubToken : { <<>>, GithubToken }, gitlabToken : { <<>>, GitlabToken },
    bitbucketToken : { <<>>, BitbucketToken } ]

\* [scheme] host [/provider domain] (/ or :) o/r [.git or /]
CloneUrls ==
  { scheme \o host \o inPath \o << sep >> \o <<"o","/","r">> \o suffix :
      scheme \in { <<>>, Https, Http, GitAt },
      host \in { GithubCom, GitlabCom, BitbucketOrg, OtherHost, <<"n">> \o GithubCom },
      inPath \in { <<>>, <<"/">> \o GithubCom, <<"/">> \o BitbucketOrg },
      sep \in { "/", ":" },
      suffix \in { <<>>, DotGit, <<"/">> } }

InitClone ==
  /\ fs = ContainerFs
  /\ args = [t \in Tasks |-> [maxDepth |-> 0, excludedFolders |-> <<>>]]
  /\ pc = [t \in Tasks |-> "idle"]
  /\ stack = Idle
  /\ foundProjects = Idle
  /\ calls = Idle
  /\ recencySeen = [t \in Tasks |-> {}]
  /\ now = 1
  /\ store = EmptyStore
  /\ projects = <<>>
  /\ \E p \in TokenPreferences :
        local = [t \in Tasks |-> [NoLocals EXCEPT !.preferences = p]]
  /\ result = Idle
  /\ written = <<>>
  /\ cacheId = 0
  /\ removedBy = {}
  /\ ticks = 0
  /\ call = NoCalls
  /\ command = "clone-repo"
  /\ toasts = <<>>
  /\ effects = {}
  /\ cursorInstalled = << TRUE >>
  /\ action = NoAction

\* clone-repo.tsx:36-47: the URL typed is parsed; the clone form is pushed or
\* the URL is refused
HandleCloneUrl(t, url) ==
  /\ command = "clone-repo" /\ pc[t] = "idle" /\ action = NoAction
  /\ IF parseGitUrl(url) = <<>>
     THEN /\ action' = End([Started("clone-url", <<>>) EXCEPT !.name = url])
          /\ toasts' = << Toast("Failure", "Invalid Git URL") >>
          /\ pc' = pc
     ELSE /\ action' = [Started("clone-url", parseGitUrl(url)) EXCEPT !.name = url]
          /\ toasts' = <<>>
          /\ pc' = [pc EXCEPT ![t] = "cloneUrl"]
  /\ UNCHANGED << walkFrame, cacheFrame, call, command, effects, cursorInstalled >>

\* clone-repo.tsx:229-243 with git-clone.ts:82-84 and 104: the token of the
\* repository's provider, and the URL handed to git.clone
CloneRepositoryUrl(t) ==
  /\ pc[t] = "cloneUrl"
  /\ LET repository == action.p[1]
         token == getTokenForProvider(local[t].preferences, repository.provider)
         repoInfo == parseGitUrl(repository.url)
         provider == IF repoInfo = <<>> THEN <<>> ELSE << repoInfo[1].provider >>
     IN effects' = { buildAuthenticatedUrl(repository.url, token, provider) }
  /\ pc' = [pc EXCEPT ![t] = "done"]
  /\ UNCHANGED << walkFrame, cacheFrame, call, command, toasts, cursorInstalled, action >>

NextClone ==
  \/ \E url \in CloneUrls : HandleCloneUrl("t1", url)
  \/ CloneRepositoryUrl("t1")

SpecClone == InitClone /\ [][NextClone]_vars

\* the authority of an https URL: what stands between the scheme and the next slash
HttpsHost(url) ==
  LET rest == SubSeq(url, Len(Https) + 1, Len(url))
      slashes == { k \in 1..Len(rest) : rest[k] = "/" }
      end == IF slashes = {} THEN Len(rest)
             ELSE (CHOOSE k \in slashes : \A j \in slashes : k <= j) - 1
  IN SubSeq(rest, 1, end)

ProviderTokens ==
  { << GithubToken, GithubCom >>, << GitlabToken, GitlabCom >>,
    << BitbucketToken, BitbucketOrg >> }

\* C30: the URL handed to git clone holds the token of a provider only when
\* the URL typed is an https URL whose host is that provider's domain; a URL
\* with another host, also one with a provider's domain in its path, and a
\* custom URL are cloned without a token.
C30_TokenOnlyToItsProvider ==
  \A handed \in effects : \A pt \in ProviderTokens :
     includes(handed, pt[1]) =>
        /\ startsWith(action.name, Https)
        /\ HttpsHost(action.name) = pt[2]

\* the part of C30 that holds: a token is embedded only in an https URL that
\* holds the provider's domain followed by / or :, never in a custom URL
C30_TokenOnlyWhereDomainOccurs ==
  \A handed \in effects : \A pt \in ProviderTokens :
     includes(handed, pt[1]) =>
        /\ startsWith(action.name, Https)
        /\ MatchProvider(action.name, pt[2]) # <<>>
        /\ action.p[1].provider # "custom"

\* the GitHub token went to another host whose path named github.com
C30_TokenSentToOtherHost ==
  /\ pc["t1"] = "done"
  /\ HttpsHost(action.name) = OtherHost
  /\ \E handed \in effects :
        startsWith(handed, Https \o GithubToken \o <<"@">> \o OtherHost)
====
